---- MODULE Spec2Model ----
(***************************************************************************)
(* A model of Merlin's routing, retrieval and handler core                 *)
(* (federdil/merlin).  Python strings whose characters matter are          *)
(* sequences of one-character strings; Python values that may be None or   *)
(* of a wrong type are tagged records (PyVal); a dict is a function from   *)
(* its keys.  Confidences and weights are integers in hundredths.          *)
(***************************************************************************)
EXTENDS Integers, Sequences, FiniteSets, TLC

VARIABLES
    pc,       \* "ready": the call's inputs are drawn; "done": the call returned
    cls,      \* a classify_input call: its input, what the collaborators answer,
              \* and once done the collaborators it invoked in order and its result
    val,      \* a validate_routing call: its argument and, once done, its result
    store,    \* the notes table, in id order
    srch,     \* the calls of the retrieval engine: their arguments and results
    hnd,      \* a call of a handler entry point: its action, its input_data, what
              \* the collaborators answer, and once done what the call gave back
    req,      \* a request to the dispatcher: its text, what the collaborators
              \* answer, and once done the calls it made in order and its response
    tgs,      \* a normalize_tags call: its argument and, once done, what it gave
              \* back, and what normalizing that again gave
    sim,      \* a compute_similarity call: its two vectors and, once done, the
              \* scores of both orders of the arguments
    llm       \* a summarize_and_tag call of app/llm.py: its content, what the
              \* model calls answer, and once done the calls made and the result

vars == <<pc, cls, val, store, srch, hnd, req, tgs, sim, llm>>

(***************************************************************************)
(* Bounds of the model.                                                    *)
(***************************************************************************)
MaxFrags == 2

MaxNotes == 3

MaxTopK == 2

\* the length of a content longer than a fallback title, and of one longer than
\* a fallback summary
MediumLength == 81

LongLength == 201

(***************************************************************************)
(* Strings.                                                                *)
(***************************************************************************)
Whitespace == {" ", "\t", "\n"}

\* str.lower() on one character
LowerChar(c) ==
    CASE c = "A" -> "a" [] c = "B" -> "b" [] c = "C" -> "c" [] c = "D" -> "d"
      [] c = "E" -> "e" [] c = "F" -> "f" [] c = "G" -> "g" [] c = "H" -> "h"
      [] c = "I" -> "i" [] c = "J" -> "j" [] c = "K" -> "k" [] c = "L" -> "l"
      [] c = "M" -> "m" [] c = "N" -> "n" [] c = "O" -> "o" [] c = "P" -> "p"
      [] c = "Q" -> "q" [] c = "R" -> "r" [] c = "S" -> "s" [] c = "T" -> "t"
      [] c = "U" -> "u" [] c = "V" -> "v" [] c = "W" -> "w" [] c = "X" -> "x"
      [] c = "Y" -> "y" [] c = "Z" -> "z"
      [] OTHER -> c

Lower(s) == [i \in 1..Len(s) |-> LowerChar(s[i])]

\* a strip that was forgotten
StripForgotten(s) == s

RECURSIVE LStrip(_)
LStrip(s) == IF s # <<>> /\ Head(s) \in Whitespace THEN LStrip(Tail(s)) ELSE s

RECURSIVE RStrip(_)
RStrip(s) ==
    IF s # <<>> /\ s[Len(s)] \in Whitespace THEN RStrip(SubSeq(s, 1, Len(s) - 1)) ELSE s

\* str.strip()
Strip(s) == RStrip(LStrip(s))

\* str.startswith(prefix)
StartsWith(s, p) == Len(s) >= Len(p) /\ SubSeq(s, 1, Len(p)) = p

\* "word in text" on strings: substring containment
Contains(s, w) ==
    \E i \in 1..(Len(s) - Len(w) + 1) : SubSeq(s, i, i + Len(w) - 1) = w

(***************************************************************************)
(* Python values.                                                          *)
(***************************************************************************)
PyNone == [t |-> "none", s |-> <<>>, n |-> 0, k |-> "", items |-> <<>>]
PyStr(s) == [t |-> "str", s |-> s, n |-> 0, k |-> "", items |-> <<>>]
PyInt(n) == [t |-> "int", s |-> <<>>, n |-> n, k |-> "", items |-> <<>>]
PyBool(b) == [t |-> "bool", s |-> <<>>, n |-> IF b THEN 1 ELSE 0, k |-> "", items |-> <<>>]
\* a string literal of the source whose characters play no role
Tok(k) == [t |-> "str", s |-> <<>>, n |-> 0, k |-> k, items |-> <<>>]
\* a list and a tuple of values, and a dict with its (key, value) pairs
PyList(items) == [t |-> "list", s |-> <<>>, n |-> 0, k |-> "", items |-> items]
PyTuple(items) == [t |-> "tuple", s |-> <<>>, n |-> 0, k |-> "", items |-> items]
PyDict(items) == [t |-> "dict", s |-> <<>>, n |-> 0, k |-> "", items |-> items]

\* bool(v)
Truthy(v) ==
    CASE v.t = "none" -> FALSE
      [] v.t = "str" -> v.s # <<>> \/ v.k # ""
      [] v.t \in {"int", "bool"} -> v.n # 0
      [] v.t \in {"list", "tuple", "dict"} -> v.items # <<>>
      [] OTHER -> TRUE

\* a or b
PyOr(a, b) == IF Truthy(a) THEN a ELSE b

(***************************************************************************)
(* Content fetcher (app/agents/tools/content_fetcher.py).                  *)
(***************************************************************************)
\* what trafilatura answers for a URL: whether anything was downloaded, and the
\* text extracted from it (None when extraction fails)
FetchAnswers ==
    { [downloaded |-> FALSE, text |-> PyNone],
      [downloaded |-> TRUE, text |-> PyNone],
      [downloaded |-> TRUE, text |-> PyStr(<<>>)],
      [downloaded |-> TRUE, text |-> PyStr(<<" ">>)],
      [downloaded |-> TRUE, text |-> PyStr(<<"p", "a", "g", "e", " ">>)] }

\* fetch_url_content(url) -> (title, content)
fetch_url_content(ans) ==
    IF ~ans.downloaded THEN [title |-> PyNone, content |-> PyNone]
    ELSE IF ~Truthy(ans.text) THEN [title |-> PyNone, content |-> PyNone]
    ELSE [title |-> PyNone, content |-> PyStr(Strip(ans.text.s))]

\* a URL test that knows http:// only
is_url_http_only(text) == StartsWith(text, <<"h", "t", "t", "p", ":", "/", "/">>)

is_url(text) ==
    \/ StartsWith(text, <<"h", "t", "t", "p", ":", "/", "/">>)
    \/ StartsWith(text, <<"h", "t", "t", "p", "s", ":", "/", "/">>)

\* extract_content_from_input(input_text) -> (title, content, input_type);
\* fetched says whether the fetcher was called
extract_content_from_input(input_text, ans) ==
    IF input_text = <<>> \/ Strip(input_text) = <<>>
    THEN [title |-> PyNone, content |-> PyNone, input_type |-> "empty", fetched |-> FALSE]
    ELSE IF is_url(Strip(input_text))
    THEN [title |-> fetch_url_content(ans).title,
          content |-> fetch_url_content(ans).content,
          input_type |-> "url", fetched |-> TRUE]
    ELSE [title |-> PyNone, content |-> PyStr(Strip(input_text)),
          input_type |-> "text", fetched |-> FALSE]

(***************************************************************************)
(* Router (app/agents/strands_router_agent.py).                            *)
(***************************************************************************)
\* a confidence: a Python value of some type; val is in hundredths
Conf(kind, v) == [kind |-> kind, val |-> v, nan |-> FALSE]

\* a RoutingDecision whose upper bound is exclusive (lt=1 for le=1)
RoutingDecisionOkExclusive(ans) == ans.confidence >= 0 /\ ans.confidence < 100

\* RoutingDecision: the pydantic model rejects a confidence outside [0, 1]
RoutingDecisionOk(ans) == ans.confidence >= 0 /\ ans.confidence <= 100

\* agent.structured_output(RoutingDecision, ...) raises when the model call fails
\* or when its answer does not make a RoutingDecision
StructuredOutputRaises(ans) == ~ans.ok \/ ~RoutingDecisionOk(ans)

SummarizationKeywords ==
    { <<"s", "u", "m", "m", "a", "r", "i", "z", "e">>,
      <<"s", "u", "m", "m", "a", "r", "y">>,
      <<"b", "r", "i", "e", "f">>,
      <<"o", "v", "e", "r", "v", "i", "e", "w">> }

QuestionKeywords ==
    { <<"w", "h", "a", "t">>,
      <<"h", "o", "w">>,
      <<"w", "h", "e", "r", "e">>,
      <<"w", "h", "e", "n">>,
      <<"w", "h", "o">>,
      <<"f", "i", "n", "d">>,
      <<"s", "e", "a", "r", "c", "h">> }

\* a keyword test that looks at the start of the text only
AnyWordStartsText(words, text_lower) == \E w \in words : StartsWith(text_lower, w)

\* any(word in text_lower for word in words)
AnyWordIn(words, text_lower) == \E w \in words : Contains(text_lower, w)

_prepare_input_data(agent_type, action, original_input, title, content, input_type) ==
    LET base_data == [original_input |-> PyStr(original_input),
                      input_type |-> Tok(input_type)]
    IN  IF agent_type = "ingestion" /\ action = "ingest_url"
        THEN base_data @@ [url |-> PyStr(original_input), title |-> title,
                           content |-> content]
        ELSE IF agent_type = "ingestion" /\ action = "ingest_text"
        THEN base_data @@ [title |-> title, content |-> content]
        ELSE IF agent_type = "query" /\ action = "search"
        THEN base_data @@ [query |-> PyOr(content, PyStr(original_input)),
                           search_type |-> Tok("semantic")]
        ELSE IF agent_type = "query" /\ action = "empty_input"
        THEN base_data
        ELSE IF agent_type = "summarization"
        THEN base_data @@ [content |-> PyOr(content, PyStr(original_input))]
        ELSE base_data

FallbackUrl(user_input, title, content) ==
    [agent_type |-> "ingestion", action |-> "ingest_url",
     input_data |-> [url |-> PyStr(user_input), title |-> title,
                     content |-> content, original_input |-> PyStr(user_input)],
     confidence |-> Conf("float", 95),
     reasoning |-> "URL detected - routing to ingestion"]

FallbackSummarization(user_input, content) ==
    [agent_type |-> "summarization", action |-> "summarize_existing",
     input_data |-> [content |-> PyOr(content, PyStr(user_input)),
                     original_input |-> PyStr(user_input)],
     confidence |-> Conf("float", 80),
     reasoning |-> "Summarization keywords detected"]

FallbackQuestion(user_input, content) ==
    [agent_type |-> "query", action |-> "search",
     input_data |-> [query |-> PyOr(content, PyStr(user_input)),
                     search_type |-> Tok("semantic"),
                     original_input |-> PyStr(user_input)],
     confidence |-> Conf("float", 90),
     reasoning |-> "Question keywords detected"]

\* a text rule with a confidence of 1.85
FallbackTextOverconfident(user_input, title, content) ==
    [agent_type |-> "ingestion", action |-> "ingest_text",
     input_data |-> [title |-> title,
                     content |-> PyOr(content, PyStr(user_input)),
                     original_input |-> PyStr(user_input)],
     confidence |-> Conf("float", 185),
     reasoning |-> "Text content - routing to ingestion"]

FallbackText(user_input, title, content) ==
    [agent_type |-> "ingestion", action |-> "ingest_text",
     input_data |-> [title |-> title,
                     content |-> PyOr(content, PyStr(user_input)),
                     original_input |-> PyStr(user_input)],
     confidence |-> Conf("float", 85),
     reasoning |-> "Text content - routing to ingestion"]

FallbackFinal(user_input) ==
    [agent_type |-> "query", action |-> "search",
     input_data |-> [query |-> PyStr(user_input),
                     search_type |-> Tok("semantic"),
                     original_input |-> PyStr(user_input)],
     confidence |-> Conf("float", 50),
     reasoning |-> "Fallback routing to query"]

_fallback_routing(user_input, title, content, input_type) ==
    IF input_type = "url" THEN FallbackUrl(user_input, title, content)
    ELSE IF input_type = "text"
    THEN LET text_lower == IF Truthy(content) THEN Lower(content.s)
                           ELSE Lower(user_input)
         IN  IF AnyWordIn(SummarizationKeywords, text_lower)
             THEN FallbackSummarization(user_input, content)
             ELSE IF AnyWordIn(QuestionKeywords, text_lower)
             THEN FallbackQuestion(user_input, content)
             ELSE FallbackText(user_input, title, content)
    ELSE FallbackFinal(user_input)

EmptyInputDecision(user_input) ==
    [agent_type |-> "query", action |-> "empty_input",
     input_data |-> [original_input |-> PyStr(user_input)],
     confidence |-> Conf("float", 100),
     reasoning |-> "Empty input - showing recent notes"]

\* classify_input(user_input): the routing result, and the collaborators the
\* call invoked in order ("fallback" marks the evaluation of the fallback rules)
classify_input(raw_input, answer, page) ==
    IF raw_input = <<>> \/ Strip(raw_input) = <<>>
    THEN [result |-> EmptyInputDecision(raw_input), calls |-> <<>>]
    ELSE
      LET stripped == Strip(raw_input)
          ex == extract_content_from_input(stripped, page)
          fetch_calls == IF ex.fetched THEN <<"fetcher">> ELSE <<>>
      IN  IF ~StructuredOutputRaises(answer)
          THEN [result |->
                  [agent_type |-> answer.agent_type,
                   action |-> answer.action,
                   input_data |-> _prepare_input_data(answer.agent_type, answer.action,
                                     stripped, ex.title, ex.content, ex.input_type),
                   confidence |-> Conf("float", answer.confidence),
                   reasoning |-> answer.reasoning],
                calls |-> fetch_calls \o <<"classifier">>]
          ELSE [result |-> _fallback_routing(stripped, ex.title, ex.content, ex.input_type),
                calls |-> fetch_calls \o <<"classifier", "fallback">>]

\* isinstance(confidence, (int, float)): bool is a subclass of int
IsIntOrFloat(c) == c.kind \in {"int", "float", "bool"}

\* a range check that lost its upper bound
InUnitIntervalNoUpper(c) == ~c.nan /\ 0 <= c.val

\* 0 <= confidence <= 1; every comparison with NaN is false
InUnitInterval(c) == ~c.nan /\ 0 <= c.val /\ c.val <= 100

RequiredFields == {"agent_type", "action", "input_data", "confidence"}

ValidAgents == {"ingestion", "query", "summarization"}

validate_routing(routing_result) ==
    IF ~(\A field \in RequiredFields : field \in DOMAIN routing_result) THEN FALSE
    ELSE IF routing_result["agent_type"] \notin ValidAgents THEN FALSE
    ELSE IF ~IsIntOrFloat(routing_result["confidence"])
            \/ ~InUnitInterval(routing_result["confidence"]) THEN FALSE
    ELSE TRUE

(***************************************************************************)
(* Inputs of the router.                                                   *)
(***************************************************************************)
Fragments ==
    { <<" ">>,
      <<"\t">>,
      <<"h", "t", "t", "p", "s", ":", "/", "/">>,
      <<"h", "t", "t", "p", ":", "/", "/">>,
      <<"H", "T", "T", "P", ":", "/", "/">>,
      <<"x", ".", "i", "o">>,
      <<"S", "u", "m", "m", "a", "r", "i", "z", "e">>,
      <<"s", "u", "m", "m", "a", "r", "y">>,
      <<"B", "R", "I", "E", "F">>,
      <<"O", "v", "e", "r", "v", "i", "e", "w">>,
      <<"W", "h", "a", "t">>,
      <<"h", "o", "w">>,
      <<"W", "H", "E", "R", "E">>,
      <<"w", "h", "e", "n">>,
      <<"w", "h", "o">>,
      <<"f", "i", "n", "d">>,
      <<"S", "e", "a", "r", "c", "h">>,
      <<"w", "h">>,
      <<"a", "t">>,
      <<"m", "e", "m", "o">> }

RECURSIVE Texts(_)
\* the strings made of at most n fragments
Texts(n) ==
    IF n = 0 THEN {<<>>}
    ELSE Texts(n - 1) \cup {t \o f : t \in Texts(n - 1), f \in Fragments}

UserInputs == Texts(MaxFrags)

AgentTypeAnswers == {"ingestion", "query", "summarization", "chat"}

ActionAnswers == {"ingest_url", "ingest_text", "search", "empty_input", "delete"}

\* what the model behind the structured classifier may answer; confidence in
\* hundredths, possibly outside [0, 1]
ClassifierAnswers ==
    {[ok |-> FALSE, agent_type |-> "", action |-> "", confidence |-> 0, reasoning |-> ""]}
    \cup [ok : {TRUE}, agent_type : AgentTypeAnswers, action : ActionAnswers,
          confidence : {100, 150}, reasoning : {"model"}]

ConfidenceValues ==
    { Conf("float", 0), Conf("float", 50), Conf("float", 100), Conf("float", 150),
      Conf("float", 0 - 10), Conf("int", 0), Conf("int", 100), Conf("int", 200),
      Conf("bool", 0), Conf("bool", 100), Conf("str", 50), Conf("none", 0),
      [kind |-> "float", val |-> 0, nan |-> TRUE] }

DictKeys == RequiredFields \cup {"reasoning"}

\* the dicts validate_routing is called with: any subset of the keys, an
\* agent_type that may be unknown, a confidence of any type
RoutingResults ==
    { [k \in K |-> d[k]] :
        d \in [agent_type : ValidAgents \cup {"chat", ""}, action : {"search"},
               input_data : {<<>>}, confidence : ConfidenceValues,
               reasoning : {"why"}],
        K \in SUBSET DictKeys }

(***************************************************************************)
(* The router's operations.                                                *)
(***************************************************************************)
NoCall == [drawn |-> FALSE, called |-> FALSE]

\* a call of classify_input
ClassifyInput ==
    /\ pc = "ready"
    /\ cls.drawn
    /\ cls' = [cls EXCEPT !.called = TRUE,
                 !.result = classify_input(cls.input, cls.answer, cls.page).result,
                 !.calls = classify_input(cls.input, cls.answer, cls.page).calls]
    /\ pc' = "done"
    /\ UNCHANGED <<val, store, srch, hnd, req, tgs, sim, llm>>

RouterInit ==
    /\ pc = "ready"
    /\ cls \in [drawn : {TRUE}, called : {FALSE}, input : UserInputs,
                answer : ClassifierAnswers, page : FetchAnswers,
                result : {<<>>}, calls : {<<>>}]
    /\ val = NoCall
    /\ store = <<>>
    /\ srch = NoCall
    /\ hnd = NoCall
    /\ req = NoCall
    /\ tgs = NoCall
    /\ sim = NoCall
    /\ llm = NoCall

RouterNext == ClassifyInput

SpecRouter == RouterInit /\ [][RouterNext]_vars

\* a call of validate_routing
ValidateRouting ==
    /\ pc = "ready"
    /\ val.drawn
    /\ val' = [val EXCEPT !.called = TRUE, !.result = validate_routing(val.arg)]
    /\ pc' = "done"
    /\ UNCHANGED <<cls, store, srch, hnd, req, tgs, sim, llm>>

ValidateInit ==
    /\ pc = "ready"
    /\ val \in [drawn : {TRUE}, called : {FALSE}, arg : RoutingResults, result : {FALSE}]
    /\ cls = NoCall
    /\ store = <<>>
    /\ srch = NoCall
    /\ hnd = NoCall
    /\ req = NoCall
    /\ tgs = NoCall
    /\ sim = NoCall
    /\ llm = NoCall

ValidateNext == ValidateRouting

SpecValidate == ValidateInit /\ [][ValidateNext]_vars

(***************************************************************************)
(* The notes table (db/models.py) and its queries                          *)
(* (app/agents/tools/database_ops.py, db/crud.py).  A query without an     *)
(* ORDER BY answers in id order, and rows at equal distance come in id     *)
(* order: the table answers the same query the same way every time.        *)
(***************************************************************************)
Note(id, title, content, summary, tags, embedding) ==
    [id |-> id, title |-> title, content |-> content, summary |-> summary,
     tags |-> tags, embedding |-> embedding, created_at |-> id]

\* the pgvector operator <->: Euclidean distance, here squared
RECURSIVE SquaredDistance(_, _)
SquaredDistance(u, v) ==
    IF u = <<>> \/ v = <<>> THEN 0
    ELSE (Head(u) - Head(v)) * (Head(u) - Head(v)) + SquaredDistance(Tail(u), Tail(v))

Front(seq) == SubSeq(seq, 1, Len(seq) - 1)

Last(seq) == seq[Len(seq)]

\* seq[:n] for n >= 0
Take(seq, n) == SubSeq(seq, 1, IF n < Len(seq) THEN n ELSE Len(seq))

\* x put behind every element of the ascending sequence whose key is <= key[x]
InsertAscending(sorted, x, key) ==
    LET before == {i \in 1..Len(sorted) : key[sorted[i].id] <= key[x.id]}
        n == Cardinality(before)
    IN  SubSeq(sorted, 1, n) \o <<x>> \o SubSeq(sorted, n + 1, Len(sorted))

RECURSIVE SortAscending(_, _)
SortAscending(seq, key) ==
    IF seq = <<>> THEN <<>>
    ELSE InsertAscending(SortAscending(Front(seq), key), Last(seq), key)

get_note_by_id(table, note_id) ==
    IF \E i \in 1..Len(table) : table[i].id = note_id
    THEN table[CHOOSE i \in 1..Len(table) : table[i].id = note_id]
    ELSE PyNone

\* semantic_search_pgvector: ORDER BY embedding <-> query_embedding LIMIT top_k
semantic_search_pgvector(table, query_embedding, top_k) ==
    LET distance == [id \in {table[i].id : i \in 1..Len(table)} |->
                        SquaredDistance(get_note_by_id(table, id).embedding,
                                        query_embedding)]
    IN  Take(SortAscending(table, distance), top_k)

\* text ILIKE pattern: % is any run of characters, _ any one character
RECURSIVE LikeMatch(_, _)
LikeMatch(text, pattern) ==
    IF pattern = <<>> THEN text = <<>>
    ELSE IF Head(pattern) = "%"
    THEN LikeMatch(text, Tail(pattern)) \/ (text # <<>> /\ LikeMatch(Tail(text), pattern))
    ELSE /\ text # <<>>
         /\ Head(pattern) = "_" \/ LowerChar(Head(text)) = LowerChar(Head(pattern))
         /\ LikeMatch(Tail(text), Tail(pattern))

\* column.ilike(f"%{query}%"); a NULL column matches nothing
ILikeQuery(column, query) ==
    column.t = "str" /\ LikeMatch(column.s, <<"%">> \o query \o <<"%">>)

\* search_notes_by_content(query, limit)
search_notes_by_content(table, query, limit) ==
    LET matches(note) ==
            \/ ILikeQuery(PyStr(note.content), query)
            \/ ILikeQuery(PyStr(note.title), query)
            \/ ILikeQuery(note.summary, query)
    IN  Take(SelectSeq(table, matches), limit)

(***************************************************************************)
(* Retrieval engine (app/agents/tools/search.py).  The embedder is a       *)
(* function of the text: one call's query vector is drawn once.            *)
(***************************************************************************)
semantic_search(table, query_vec, top_k) ==
    semantic_search_pgvector(table, query_vec, top_k)

search_by_content(table, query, top_k) == search_notes_by_content(table, query, top_k)

\* find_similar_notes without the final slice
find_similar_notes_unsliced(table, note_id, top_k) ==
    LET note == get_note_by_id(table, note_id)
    IN  IF note = PyNone THEN <<>>
        ELSE SelectSeq(semantic_search_pgvector(table, note.embedding, top_k + 1),
                       LAMBDA n : n.id # note.id)

find_similar_notes(table, note_id, top_k) ==
    LET note == get_note_by_id(table, note_id)
    IN  IF note = PyNone THEN <<>>
        ELSE Take(SelectSeq(semantic_search_pgvector(table, note.embedding, top_k + 1),
                            LAMBDA n : n.id # note.id),
                  top_k)

Ids(notes) == {notes[i].id : i \in 1..Len(notes)}

\* the index of the note with this id in a result list, from 0
RankOf(notes, id) == (CHOOSE i \in 1..Len(notes) : notes[i].id = id) - 1

\* a rank score that grows with the rank: i / len(results)
RankScoreReversed(notes, id) == IF id \in Ids(notes) THEN RankOf(notes, id) ELSE 0

\* 1.0 - i / len(results) for the notes of a result list, over the common
\* denominator len(results): the numerator
RankScore(notes, id) == IF id \in Ids(notes) THEN Len(notes) - RankOf(notes, id) ELSE 0

NonZero(n) == IF n = 0 THEN 1 ELSE n

\* a combination that gives each list the other list's weight
CombinedScoreSwapped(weight, semantic_results, text_results, id) ==
    (100 - weight) * RankScore(semantic_results, id) * NonZero(Len(text_results))
    + weight * RankScore(text_results, id) * NonZero(Len(semantic_results))

\* semantic_weight * semantic_score + (1 - semantic_weight) * text_score, over
\* the common denominator 100 * len(semantic_results) * len(text_results)
CombinedScore(weight, semantic_results, text_results, id) ==
    weight * RankScore(semantic_results, id) * NonZero(Len(text_results))
    + (100 - weight) * RankScore(text_results, id) * NonZero(Len(semantic_results))

\* x put behind every element of the descending sequence whose key is >= key[x]
InsertDescending(sorted, x, key) ==
    LET before == {i \in 1..Len(sorted) : key[sorted[i]] >= key[x]}
        n == Cardinality(before)
    IN  SubSeq(sorted, 1, n) \o <<x>> \o SubSeq(sorted, n + 1, Len(sorted))

\* ids left in the order of iteration
SortForgotten(ids, key) == ids

\* sorted(ids, key=..., reverse=True): stable
RECURSIVE SortDescending(_, _)
SortDescending(ids, key) ==
    IF ids = <<>> THEN <<>>
    ELSE InsertDescending(SortDescending(Front(ids), key), Last(ids), key)

\* the orders in which Python may iterate over a set
IterationOrders(S) ==
    {order \in [1..Cardinality(S) -> S] : \A x \in S : \E i \in DOMAIN order : order[i] = x}

\* the limit hybrid_search gives its two sub-searches
SubSearchLimit(top_k) == top_k * 2

\* hybrid_search(query, semantic_weight, top_k); set_order is the order in which
\* the set of note ids is iterated
hybrid_search(table, query, query_vec, semantic_weight, top_k, set_order) ==
    LET semantic_results == semantic_search(table, query_vec, SubSearchLimit(top_k))
        text_results == search_by_content(table, query, SubSearchLimit(top_k))
        all_note_ids == Ids(semantic_results) \cup Ids(text_results)
        combined_scores == [id \in all_note_ids |->
            CombinedScore(semantic_weight, semantic_results, text_results, id)]
        sorted_ids == SortDescending(set_order, combined_scores)
        both == semantic_results \o text_results
        \* {note.id: note for note in semantic_results + text_results}
        notes_dict == [id \in all_note_ids |->
            both[CHOOSE i \in 1..Len(both) :
                    both[i].id = id /\ \A j \in (i + 1)..Len(both) : both[j].id # id]]
        final_results == [i \in 1..Len(sorted_ids) |-> notes_dict[sorted_ids[i]]]
    IN  Take(final_results, top_k)

HybridNoteIds(table, query, query_vec, top_k) ==
    Ids(semantic_search(table, query_vec, SubSearchLimit(top_k)))
    \cup Ids(search_by_content(table, query, SubSearchLimit(top_k)))

(***************************************************************************)
(* Inputs of the retrieval engine.                                         *)
(***************************************************************************)
EmbeddingVectors == {<<0, 0>>, <<1, 0>>}

NoteContents == {<<"C", "a", "t", "s">>, <<"d", "o", "g">>}

SearchQueries == {<<"c", "a", "t">>, <<"o">>, <<"n">>, <<"c", "_", "t">>}

SemanticWeights == {0, 50, 100}

\* the tables of at most n notes, ids given in order of insertion
Tables(n) ==
    UNION { { [i \in 1..len |->
                Note(i, <<"n", "o", "t", "e">>, rows[i][1], PyNone, <<>>, rows[i][2])] :
              rows \in [1..len -> NoteContents \X EmbeddingVectors] } :
            len \in 0..n }

NoResults == [semantic |-> <<>>, text |-> <<>>, hybrid |-> <<>>, similar |-> <<>>]

SearchCalls ==
    [drawn : {TRUE}, called : {FALSE}, op : {"search"}, query : SearchQueries,
     query_vec : EmbeddingVectors, top_k : 0..MaxTopK, weight : SemanticWeights,
     note_id : {0}, results : {NoResults}]
    \cup
    [drawn : {TRUE}, called : {FALSE}, op : {"find_similar"}, query : {<<>>},
     query_vec : {<<>>}, top_k : 0..MaxTopK, weight : {0},
     note_id : 0..(MaxNotes + 1), results : {NoResults}]

(***************************************************************************)
(* The retrieval engine's operations.                                      *)
(***************************************************************************)
SemanticSearch ==
    /\ pc = "ready"
    /\ srch.drawn /\ srch.op = "search"
    /\ srch' = [srch EXCEPT !.results.semantic =
                    semantic_search(store, srch.query_vec, srch.top_k)]
    /\ pc' = "semantic_done"
    /\ UNCHANGED <<cls, val, store, hnd, req, tgs, sim, llm>>

SearchByContent ==
    /\ pc = "semantic_done"
    /\ srch' = [srch EXCEPT !.results.text =
                    search_by_content(store, srch.query, srch.top_k)]
    /\ pc' = "text_done"
    /\ UNCHANGED <<cls, val, store, hnd, req, tgs, sim, llm>>

HybridSearch ==
    /\ pc = "text_done"
    /\ \E set_order \in IterationOrders(
            HybridNoteIds(store, srch.query, srch.query_vec, srch.top_k)) :
         srch' = [srch EXCEPT !.called = TRUE, !.results.hybrid =
                    hybrid_search(store, srch.query, srch.query_vec, srch.weight,
                                  srch.top_k, set_order)]
    /\ pc' = "done"
    /\ UNCHANGED <<cls, val, store, hnd, req, tgs, sim, llm>>

FindSimilarNotes ==
    /\ pc = "ready"
    /\ srch.drawn /\ srch.op = "find_similar"
    /\ srch' = [srch EXCEPT !.called = TRUE, !.results.similar =
                    find_similar_notes(store, srch.note_id, srch.top_k)]
    /\ pc' = "done"
    /\ UNCHANGED <<cls, val, store, hnd, req, tgs, sim, llm>>

SearchInit ==
    /\ pc = "ready"
    /\ store \in Tables(MaxNotes)
    /\ srch \in SearchCalls
    /\ cls = NoCall
    /\ val = NoCall
    /\ hnd = NoCall
    /\ req = NoCall
    /\ tgs = NoCall
    /\ sim = NoCall
    /\ llm = NoCall

SearchNext == SemanticSearch \/ SearchByContent \/ HybridSearch \/ FindSimilarNotes

SpecSearch == SearchInit /\ [][SearchNext]_vars

(***************************************************************************)
(* Tag normalisation (app/agents/tools/tagging.py): the cleaning of one     *)
(* tag.                                                                    *)
(***************************************************************************)
\* s.split(sep)
RECURSIVE Split(_, _)
Split(s, sep) ==
    IF \E i \in 1..Len(s) : s[i] = sep
    THEN LET i == CHOOSE i \in 1..Len(s) : s[i] = sep /\ \A j \in 1..(i - 1) : s[j] # sep
         IN  <<SubSeq(s, 1, i - 1)>> \o Split(SubSeq(s, i + 1, Len(s)), sep)
    ELSE <<s>>

Digits == {"0", "1", "2", "3", "4", "5", "6", "7", "8", "9"}

LowerLetters ==
    {"a", "b", "c", "d", "e", "f", "g", "h", "i", "j", "k", "l", "m", "n", "o", "p",
     "q", "r", "s", "t", "u", "v", "w", "x", "y", "z"}

\* \w
IsWordChar(c) == LowerChar(c) \in LowerLetters \cup Digits \cup {"_"}

\* re.sub(r'\s+', ' ', s)
RECURSIVE CollapseWhitespace(_)
CollapseWhitespace(s) ==
    IF s = <<>> THEN <<>>
    ELSE IF Head(s) \in Whitespace THEN <<" ">> \o CollapseWhitespace(LStrip(Tail(s)))
    ELSE <<Head(s)>> \o CollapseWhitespace(Tail(s))

\* re.sub(r'[^\w\s/-]', '', s)
RemovePunctuation(s) ==
    SelectSeq(s, LAMBDA c : IsWordChar(c) \/ c \in Whitespace \/ c \in {"/", "-"})

\* the clean_tag of one tag
CleanTag(tag) == RemovePunctuation(CollapseWhitespace(Lower(Strip(tag))))

\* a list whose duplicates are kept
KeepDuplicates(seq) == seq

\* remove duplicates while preserving order
RECURSIVE UniqueInOrder(_)
UniqueInOrder(seq) ==
    IF seq = <<>> THEN <<>>
    ELSE LET front == UniqueInOrder(Front(seq))
         IN  IF \E i \in 1..Len(front) : front[i] = Last(seq) THEN front
             ELSE Append(front, Last(seq))

\* the elements a list is normalized to (lines 82-102): the strings that are
\* not blank are cleaned, kept when longer than one character, and each token
\* is kept once, at its first place
NormalizeElements(items) ==
    LET kept == SelectSeq(items, LAMBDA tag : /\ tag.t = "str"
                                              /\ Strip(tag.s) # <<>>
                                              /\ Len(CleanTag(tag.s)) > 1)
        normalized == [i \in 1..Len(kept) |-> CleanTag(kept[i].s)]
    IN  UniqueInOrder(normalized)

\* what a call or an expression ends with: a value, or an exception
Returns(value) == [raised |-> FALSE, value |-> value]

Raises == [raised |-> TRUE, value |-> PyNone]

\* an except clause that was forgotten
Uncaught(outcome, fallback) == outcome

\* try: ... except: fallback
Caught(outcome, fallback) == IF outcome.raised THEN Returns(fallback) ELSE outcome

\* a list of strings
StrList(strings) == PyList([i \in 1..Len(strings) |-> PyStr(strings[i])])

\* str.endswith(suffix)
EndsWith(s, p) == Len(s) >= Len(p) /\ SubSeq(s, Len(s) - Len(p) + 1, Len(s)) = p

\* str.strip('"')
RECURSIVE StripQuotes(_)
StripQuotes(s) ==
    IF s # <<>> /\ Head(s) = "\"" THEN StripQuotes(Tail(s))
    ELSE IF s # <<>> /\ s[Len(s)] = "\"" THEN StripQuotes(Front(s))
    ELSE s

(***************************************************************************)
(* json.loads, for texts made of string literals (with the escapes \", \\, *)
(* \/, \n, \t and \r), integers, null, true, false, arrays and objects.    *)
(***************************************************************************)
JsonWhitespace == {" ", "\t", "\n", "\r"}

RECURSIVE SkipWs(_, _)
SkipWs(s, i) == IF i <= Len(s) /\ s[i] \in JsonWhitespace THEN SkipWs(s, i + 1) ELSE i

JsonFail == [ok |-> FALSE, value |-> PyNone, next |-> 0]

JsonOk(value, next) == [ok |-> TRUE, value |-> value, next |-> next]

\* the rest of a string literal whose opening quote was read
RECURSIVE JsonString(_, _, _)
JsonString(s, i, chars) ==
    IF i > Len(s) THEN JsonFail
    ELSE IF s[i] = "\"" THEN JsonOk(PyStr(chars), i + 1)
    ELSE IF s[i] \in {"\t", "\n", "\r"} THEN JsonFail
    ELSE IF s[i] = "\\"
    THEN IF i + 1 > Len(s) THEN JsonFail
         ELSE CASE s[i + 1] \in {"\"", "\\", "/"} ->
                       JsonString(s, i + 2, Append(chars, s[i + 1]))
                [] s[i + 1] = "n" -> JsonString(s, i + 2, Append(chars, "\n"))
                [] s[i + 1] = "t" -> JsonString(s, i + 2, Append(chars, "\t"))
                [] s[i + 1] = "r" -> JsonString(s, i + 2, Append(chars, "\r"))
                [] OTHER -> JsonFail
    ELSE JsonString(s, i + 1, Append(chars, s[i]))

DigitValue(c) ==
    CASE c = "0" -> 0 [] c = "1" -> 1 [] c = "2" -> 2 [] c = "3" -> 3 [] c = "4" -> 4
      [] c = "5" -> 5 [] c = "6" -> 6 [] c = "7" -> 7 [] c = "8" -> 8 [] c = "9" -> 9

\* the digits of an integer from s[i] on
RECURSIVE JsonDigits(_, _, _)
JsonDigits(s, i, n) ==
    IF i <= Len(s) /\ s[i] \in Digits THEN JsonDigits(s, i + 1, 10 * n + DigitValue(s[i]))
    ELSE JsonOk(PyInt(n), i)

\* an integer: an optional sign, then 0 or a digit from 1 to 9 and more digits
JsonNumber(s, i) ==
    LET negative == s[i] = "-"
        first == IF negative THEN i + 1 ELSE i
    IN  IF first > Len(s) \/ s[first] \notin Digits THEN JsonFail
        ELSE IF s[first] = "0" THEN JsonOk(PyInt(0), first + 1)
        ELSE LET digits == JsonDigits(s, first, 0)
             IN  JsonOk(PyInt(IF negative THEN 0 - digits.value.n ELSE digits.value.n),
                        digits.next)

StartsWithAt(s, i, word) ==
    i + Len(word) - 1 <= Len(s) /\ SubSeq(s, i, i + Len(word) - 1) = word

RECURSIVE JsonValue(_, _)
RECURSIVE JsonElements(_, _, _)
RECURSIVE JsonMembers(_, _, _)

\* the elements of an array from the value at s[i] on
JsonElements(s, i, items) ==
    LET element == JsonValue(s, i)
        after == SkipWs(s, element.next)
    IN  IF ~element.ok \/ after > Len(s) THEN JsonFail
        ELSE IF s[after] = "]"
        THEN JsonOk(PyList(Append(items, element.value)), after + 1)
        ELSE IF s[after] = ","
        THEN JsonElements(s, SkipWs(s, after + 1), Append(items, element.value))
        ELSE JsonFail

\* the members of an object from the key at s[i] on
JsonMembers(s, i, members) ==
    IF i > Len(s) \/ s[i] # "\"" THEN JsonFail
    ELSE
      LET key == JsonString(s, i + 1, <<>>)
          colon == SkipWs(s, key.next)
          member == JsonValue(s, SkipWs(s, colon + 1))
          after == SkipWs(s, member.next)
      IN  IF ~key.ok \/ colon > Len(s) THEN JsonFail
          ELSE IF s[colon] # ":" THEN JsonFail
          ELSE IF ~member.ok \/ after > Len(s) THEN JsonFail
          ELSE IF s[after] = "}"
          THEN JsonOk(PyDict(Append(members, PyTuple(<<key.value, member.value>>))), after + 1)
          ELSE IF s[after] = ","
          THEN JsonMembers(s, SkipWs(s, after + 1), Append(members, PyTuple(<<key.value, member.value>>)))
          ELSE JsonFail

\* the value that starts at s[i]
JsonValue(s, i) ==
    IF i > Len(s) THEN JsonFail
    ELSE CASE s[i] = "\"" -> JsonString(s, i + 1, <<>>)
           [] s[i] = "[" ->
                LET first == SkipWs(s, i + 1)
                IN  IF first <= Len(s) /\ s[first] = "]"
                    THEN JsonOk(PyList(<<>>), first + 1)
                    ELSE JsonElements(s, first, <<>>)
           [] s[i] = "{" ->
                LET first == SkipWs(s, i + 1)
                IN  IF first <= Len(s) /\ s[first] = "}"
                    THEN JsonOk(PyDict(<<>>), first + 1)
                    ELSE JsonMembers(s, first, <<>>)
           [] s[i] \in Digits \cup {"-"} -> JsonNumber(s, i)
           [] StartsWithAt(s, i, <<"n", "u", "l", "l">>) -> JsonOk(PyNone, i + 4)
           [] StartsWithAt(s, i, <<"t", "r", "u", "e">>) -> JsonOk(PyBool(TRUE), i + 4)
           [] StartsWithAt(s, i, <<"f", "a", "l", "s", "e">>) ->
                JsonOk(PyBool(FALSE), i + 5)
           [] OTHER -> JsonFail

\* json.loads(s): the value of the text, or an exception
json_loads(s) ==
    LET parsed == JsonValue(s, SkipWs(s, 1))
    IN  IF parsed.ok /\ SkipWs(s, parsed.next) = Len(s) + 1 THEN Returns(parsed.value)
        ELSE Raises

(***************************************************************************)
(* normalize_tags.                                                         *)
(***************************************************************************)
\* the list a tag string stands for (lines 16-34)
ParseTagString(tags) ==
    IF \E i \in 1..Len(tags) : tags[i] = ","
    THEN Returns(StrList([i \in 1..Len(Split(tags, ",")) |-> Strip(Split(tags, ",")[i])]))
    ELSE IF StartsWith(tags, <<"[">>) /\ EndsWith(tags, <<"]">>)
    THEN Caught(json_loads(tags), PyList(<<>>))
    ELSE IF StartsWith(tags, <<"{">>) /\ EndsWith(tags, <<"}">>)
    THEN LET parts == Split(SubSeq(tags, 2, Len(tags) - 1), ",")
         IN  Returns(StrList([i \in 1..Len(parts) |-> StripQuotes(Strip(parts[i]))]))
    ELSE Returns(StrList(<<tags>>))

\* the tag a finished current_tag adds to the tags (lines 66-67, 71-72)
WithCurrentTag(tags, current_tag) ==
    IF Strip(current_tag) # <<>> THEN Append(tags, StripQuotes(Strip(current_tag)))
    ELSE tags

\* the loop over the characters of an array literal's content (lines 58-72)
RECURSIVE ScanArrayContent(_, _, _, _)
ScanArrayContent(content, tags, current_tag, in_quotes) ==
    IF content = <<>> THEN WithCurrentTag(tags, current_tag)
    ELSE LET char == Head(content)
         IN  IF char = "\"" /\ (current_tag = <<>> \/ Last(current_tag) # "\\")
             THEN ScanArrayContent(Tail(content), tags, Append(current_tag, char),
                                   ~in_quotes)
             ELSE IF char = "," /\ ~in_quotes
             THEN ScanArrayContent(Tail(content), WithCurrentTag(tags, current_tag),
                                   <<>>, in_quotes)
             ELSE ScanArrayContent(Tail(content), tags, Append(current_tag, char),
                                   in_quotes)

\* ''.join(tags): a TypeError when an element is not a string
RECURSIVE Concat(_)
Concat(items) == IF items = <<>> THEN <<>> ELSE Head(items).s \o Concat(Tail(items))

Join(items) ==
    IF \E i \in 1..Len(items) : items[i].t # "str" THEN Raises
    ELSE Returns(PyStr(Concat(items)))

\* a list that looks like the characters of a string (line 40)
LooksExploded(items) ==
    /\ Len(items) > 10
    /\ items[1] \in {PyStr(<<"{">>), PyStr(<<"[">>)}
    /\ items[Len(items)] \in {PyStr(<<"}">>), PyStr(<<"]">>)}

\* the tags of the string the parts of a list make (lines 43-74)
ParseJoined(original_string, parsed) ==
    IF ~parsed.raised
    THEN Returns(IF parsed.value.t = "list" THEN parsed.value ELSE PyList(<<>>))
    ELSE IF StartsWith(original_string, <<"{">>) /\ EndsWith(original_string, <<"}">>)
    THEN Returns(StrList(ScanArrayContent(
            SubSeq(original_string, 2, Len(original_string) - 1), <<>>, <<>>, FALSE)))
    ELSE Returns(PyList(<<>>))

\* the list such a list is taken for (lines 41-77): when anything fails, the
\* list itself
ReconstructTags(items) ==
    Caught(IF Join(items).raised THEN Raises
           ELSE ParseJoined(Join(items).value.s, json_loads(Join(items).value.s)),
           PyList(items))

\* lines 79-102
NormalizeParsed(parsed) ==
    IF parsed.raised THEN parsed
    ELSE IF parsed.value.t \notin {"list", "tuple"} THEN Returns(<<>>)
    ELSE Returns(NormalizeElements(parsed.value.items))

\* normalize_tags(tags): the list of tokens it returns, or an exception
normalize_tags(tags) ==
    IF ~Truthy(tags) THEN Returns(<<>>)
    ELSE NormalizeParsed(
            IF tags.t = "str" THEN ParseTagString(tags.s)
            ELSE IF tags.t = "list" /\ LooksExploded(tags.items)
            THEN ReconstructTags(tags.items)
            ELSE Returns(tags))

(***************************************************************************)
(* More of the notes table (app/agents/tools/database_ops.py).             *)
(***************************************************************************)
\* add_note: the row gets the next id
add_note(table, title, content, summary, tags, embedding) ==
    Append(table, Note(Len(table) + 1, title, content, summary, tags, embedding))

Reverse(seq) == [i \in 1..Len(seq) |-> seq[Len(seq) + 1 - i]]

\* get_recent_notes: ORDER BY created_at DESC LIMIT limit
get_recent_notes(table, limit) == Take(Reverse(table), limit)

\* get_notes_by_tags: the notes whose tags overlap the given ones
get_notes_by_tags(table, tags) ==
    SelectSeq(table, LAMBDA note :
        \E i \in 1..Len(note.tags), j \in 1..Len(tags) : note.tags[i] = tags[j])

search_by_tags(table, tags, top_k) == Take(get_notes_by_tags(table, tags), top_k)

\* sum(len(note.tags or []) for note in all_notes)
RECURSIVE TotalTags(_)
TotalTags(table) ==
    IF table = <<>> THEN 0 ELSE Len(Head(table).tags) + TotalTags(Tail(table))

get_note_statistics(table) ==
    [total_notes |-> Len(table),
     unique_tags |-> Cardinality(UNION {{note.tags[i] : i \in 1..Len(note.tags)} :
                                        note \in {table[k] : k \in 1..Len(table)}}),
     total_tags |-> TotalTags(table)]

(***************************************************************************)
(* Handlers: what a call returns.  A call either returns a value or raises *)
(* an exception; both leave a table behind.  world holds what the          *)
(* collaborators answer during the call: whether the embedder, a read of   *)
(* the table or a write to it fails, the vector the embedder gives, the    *)
(* page the fetcher gets, the analyzer's and the summarizer's answers.     *)
(***************************************************************************)
Return(value, table) == [raised |-> FALSE, value |-> value, table |-> table]

Raise(table) == [raised |-> TRUE, value |-> PyNone, table |-> table]

\* a failure envelope that lost its error text
FailureWithoutText(error) == [success |-> FALSE, error |-> "", result |-> PyNone]

\* {'success': False, 'error': ..., 'result': None}
Failure(error) == [success |-> FALSE, error |-> error, result |-> PyNone]

\* {'success': True, 'result': ..., 'message': ...}
Success(result, message) == [success |-> TRUE, result |-> result, message |-> message]

\* a try whose except clause was forgotten
GuardForgotten(outcome, error) == outcome

\* try: ... except Exception as e: return the failure envelope
Guarded(outcome, error) ==
    IF outcome.raised THEN Return(Failure(error), outcome.table) ELSE outcome

\* an input_data that is not a dict is None
IsDict(input_data) == "t" \notin DOMAIN input_data

\* input_data.get(key, default)
Get(input_data, key, default) ==
    IF key \in DOMAIN input_data THEN input_data[key] ELSE default

\* a value the table takes as a LIMIT
IsLimit(v) == v.t = "int" /\ v.n >= 0


\* the fields of a note that every formatted result carries
FormatNotes(notes) ==
    [i \in 1..Len(notes) |->
        [id |-> notes[i].id, title |-> notes[i].title,
         summary |-> notes[i].summary, tags |-> notes[i].tags]]

(***************************************************************************)
(* Query handler (app/agents/query_agent.py).                              *)
(***************************************************************************)
DefaultSemanticWeight == 70

\* the search of _handle_search's try block
SearchResults(query, search_type, top_k, table, world, set_order) ==
    IF search_type = Tok("text")
    THEN IF world.store_read_fails \/ ~IsLimit(top_k) THEN Raise(table)
         ELSE Return(search_by_content(table, query, top_k.n), table)
    ELSE IF search_type = Tok("hybrid")
    THEN IF world.embedder_fails \/ world.store_read_fails \/ ~IsLimit(top_k)
         THEN Raise(table)
         ELSE Return(hybrid_search(table, query, world.vec, DefaultSemanticWeight,
                                   top_k.n, set_order), table)
    ELSE IF search_type = Tok("tags")
    THEN IF world.store_read_fails \/ ~IsLimit(top_k) THEN Raise(table)
         ELSE LET parts == Split(query, ",")
                  tags == [i \in 1..Len(parts) |-> Strip(parts[i])]
              IN  Return(search_by_tags(table, tags, top_k.n), table)
    ELSE IF world.embedder_fails \/ world.store_read_fails \/ ~IsLimit(top_k)
         THEN Raise(table)
         ELSE Return(semantic_search(table, world.vec, top_k.n), table)

_handle_search(input_data, table, world, set_order) ==
    IF ~IsDict(input_data) THEN Raise(table)
    ELSE IF Get(input_data, "query", PyStr(<<>>)).t # "str" THEN Raise(table)
    ELSE
      LET query == Strip(Get(input_data, "query", PyStr(<<>>)).s)
          search_type == Get(input_data, "search_type", Tok("semantic"))
          top_k == Get(input_data, "top_k", PyInt(5))
          found == SearchResults(query, search_type, top_k, table, world, set_order)
      IN  IF query = <<>> THEN Return(Failure("Search query is required"), table)
          ELSE IF found.raised THEN Return(Failure("Search failed"), table)
          ELSE Return(Success([query |-> query, search_type |-> search_type,
                               results |-> FormatNotes(found.value),
                               total_results |-> Len(found.value)],
                              "Found results"), table)

_handle_find_similar(input_data, table, world) ==
    IF ~IsDict(input_data) THEN Raise(table)
    ELSE
      LET note_id == Get(input_data, "note_id", PyNone)
          top_k == Get(input_data, "top_k", PyInt(3))
          original_note == get_note_by_id(table, note_id.n)
      IN  IF ~Truthy(note_id)
          THEN Return(Failure("Note ID is required for finding similar notes"), table)
          ELSE IF world.store_read_fails \/ note_id.t # "int"
          THEN Return(Failure("Finding similar notes failed"), table)
          ELSE IF original_note = PyNone
          THEN Return(Failure("Note with ID not found"), table)
          ELSE IF ~IsLimit(top_k)
          THEN Return(Failure("Finding similar notes failed"), table)
          ELSE LET similar_notes == find_similar_notes(table, note_id.n, top_k.n)
               IN  Return(Success([original_note |-> [id |-> original_note.id,
                                                      title |-> original_note.title,
                                                      summary |-> original_note.summary],
                                   similar_notes |-> FormatNotes(similar_notes),
                                   total_similar |-> Len(similar_notes)],
                                  "Found similar notes"), table)

_handle_get_recent(input_data, table, world) ==
    IF ~IsDict(input_data) THEN Raise(table)
    ELSE
      LET limit == Get(input_data, "limit", PyInt(10))
      IN  IF world.store_read_fails \/ ~IsLimit(limit)
          THEN Return(Failure("Getting recent notes failed"), table)
          ELSE Return(Success([recent_notes |-> FormatNotes(get_recent_notes(table, limit.n)),
                               total_recent |-> Len(get_recent_notes(table, limit.n)),
                               limit |-> limit],
                              "Retrieved recent notes"), table)

_handle_empty_input(input_data, table, world) ==
    IF world.store_read_fails
    THEN Return(Failure("Handling empty input failed"), table)
    ELSE Return(Success([recent_notes |-> FormatNotes(get_recent_notes(table, 5)),
                         statistics |-> get_note_statistics(table)],
                        "Showing recent notes and statistics"), table)

process_query(action, input_data, table, world, set_order) ==
    Guarded(
        IF action = "search" THEN _handle_search(input_data, table, world, set_order)
        ELSE IF action = "find_similar" THEN _handle_find_similar(input_data, table, world)
        ELSE IF action = "get_recent" THEN _handle_get_recent(input_data, table, world)
        ELSE IF action = "empty_input" THEN _handle_empty_input(input_data, table, world)
        ELSE Return(Failure("Unknown query action"), table),
        "Query processing failed")

(***************************************************************************)
(* Ingestion handler (app/agents/strands_ingestion_agent.py).              *)
(***************************************************************************)
SimilarTopK == 3

TitleFallbackLength == 80

SummaryFallbackLength == 200

\* a fallback that keeps the whole content as title and summary
ContentAnalysisUntruncated(title, content, world) ==
    [final_title |-> PyOr(title, content), summary |-> content, tags |-> <<>>,
     content_type |-> "text", key_insights |-> <<>>]

\* the analysis of _process_content_with_strands: the analyzer's answer, or
\* the fallback when the analyzer fails
ContentAnalysis(title, content, world) ==
    IF world.analysis.ok
    THEN [final_title |-> PyStr(world.analysis.title),
          summary |-> PyStr(world.analysis.summary),
          tags |-> world.analysis.tags,
          content_type |-> "analyzed",
          key_insights |-> world.analysis.key_insights]
    ELSE [final_title |-> PyOr(title, PyStr(Take(content.s, TitleFallbackLength))),
          summary |-> PyStr(Take(content.s, SummaryFallbackLength)),
          tags |-> <<>>,
          content_type |-> "text",
          key_insights |-> <<>>]

_process_content_with_strands(title, content, source_type, source_url, table, world) ==
    \* content[:4000] raises in the try block, content[:200] in its except clause
    IF content.t # "str" THEN Raise(table)
    ELSE
      LET analysis == ContentAnalysis(title, content, world)
          normalized_tags == IF analysis.tags # <<>> THEN normalize_tags(StrList(analysis.tags)).value
                             ELSE <<>>
          stored == add_note(table, analysis.final_title.s, content.s, analysis.summary,
                             normalized_tags, world.vec)
          db_note == Last(stored)
          similar_notes == find_similar_notes(stored, db_note.id, SimilarTopK)
      IN  IF world.embedder_fails THEN Raise(table)
          ELSE IF world.store_write_fails
          THEN Return(Failure("Database storage failed"), table)
          ELSE IF world.store_read_fails
          THEN Return(Failure("Database storage failed"), stored)
          ELSE Return(Success(
                  [note |-> [id |-> db_note.id, title |-> db_note.title,
                             summary |-> db_note.summary,
                             tags |-> normalize_tags(StrList(db_note.tags)).value,
                             source_type |-> source_type, source_url |-> source_url],
                   analysis |-> [content_type |-> analysis.content_type,
                                 key_insights |-> analysis.key_insights,
                                 processing_method |-> "strands_claude"],
                   similar_notes |->
                       [i \in 1..Len(similar_notes) |->
                           [id |-> similar_notes[i].id, title |-> similar_notes[i].title,
                            summary |-> similar_notes[i].summary,
                            tags |-> normalize_tags(StrList(similar_notes[i].tags)).value]],
                   processing_metadata |->
                       [content_length |-> Len(content.s),
                        summary_length |-> Len(analysis.summary.s),
                        tag_count |-> Len(normalized_tags)]],
                  "Successfully ingested"), stored)

_ingest_url(input_data, table, world) ==
    IF ~IsDict(input_data) THEN Raise(table)
    ELSE
      LET url == Get(input_data, "url", PyNone)
          \* the fetcher gets nothing for a url that is not a string
          page == IF url.t = "str" THEN fetch_url_content(world.page)
                  ELSE [title |-> PyNone, content |-> PyNone]
      IN  IF ~Truthy(url)
          THEN Return(Failure("URL is required for URL ingestion"), table)
          ELSE IF ~Truthy(page.content)
          THEN Return(Failure("Failed to extract content from URL"), table)
          ELSE _process_content_with_strands(page.title, page.content, "url", url,
                                             table, world)

_ingest_text(input_data, table, world) ==
    IF ~IsDict(input_data) THEN Raise(table)
    ELSE
      LET content == Get(input_data, "content", PyNone)
          title == Get(input_data, "title", PyNone)
      IN  IF ~Truthy(content)
          THEN Return(Failure("Content is required for text ingestion"), table)
          ELSE _process_content_with_strands(title, content, "text", PyNone,
                                             table, world)

process_ingestion(action, input_data, table, world) ==
    Guarded(
        IF action = "ingest_url" THEN _ingest_url(input_data, table, world)
        ELSE IF action = "ingest_text" THEN _ingest_text(input_data, table, world)
        ELSE Return(Failure("Unknown ingestion action"), table),
        "Ingestion failed")

(***************************************************************************)
(* Summarization handler (app/agents/summarization_agent.py); the          *)
(* summarizer is summarize_and_tag (app/llm.py).                           *)
(***************************************************************************)
RelatedTopK == 3

\* summarize_and_tag(content): raises, or returns (summary, tags)
summarize_and_tag(content, world) ==
    IF content.t # "str" \/ ~world.summary.ok THEN Raise(<<>>)
    ELSE Return([summary |-> world.summary.summary, tags |-> world.summary.tags], <<>>)

_summarize_existing_content(input_data, table, world) ==
    IF ~IsDict(input_data) THEN Raise(table)
    ELSE IF Get(input_data, "content", PyStr(<<>>)).t # "str" THEN Raise(table)
    ELSE
      LET content == Strip(Get(input_data, "content", PyStr(<<>>)).s)
          generated == summarize_and_tag(PyStr(content), world)
          normalized_tags == IF generated.value.tags # <<>>
                             THEN normalize_tags(StrList(generated.value.tags)).value ELSE <<>>
          related_notes == semantic_search(table, world.vec, RelatedTopK)
      IN  IF content = <<>>
          THEN Return(Failure("Content is required for summarization"), table)
          ELSE IF generated.raised \/ world.embedder_fails \/ world.store_read_fails
          THEN Return(Failure("Summarization failed"), table)
          ELSE Return(Success([original_content |-> content,
                               generated_summary |-> generated.value.summary,
                               generated_tags |-> normalized_tags,
                               related_content |-> FormatNotes(related_notes)],
                              "Content summarized successfully"), table)

_generate_summary(input_data, table, world) ==
    IF ~IsDict(input_data) THEN Raise(table)
    ELSE
      LET note_id == Get(input_data, "note_id", PyNone)
          given == Get(input_data, "content", PyNone)
          from_note == Truthy(note_id) /\ ~Truthy(given)
          note == get_note_by_id(table, note_id.n)
          content == IF from_note THEN PyStr(note.content) ELSE given
          original_title == IF from_note THEN PyStr(note.title)
                            ELSE Get(input_data, "title", Tok("Untitled"))
          generated == summarize_and_tag(content, world)
          normalized_tags == IF generated.value.tags # <<>>
                             THEN normalize_tags(StrList(generated.value.tags)).value ELSE <<>>
      IN  IF ~Truthy(given) /\ ~Truthy(note_id)
          THEN Return(Failure("Either content or note_id is required"), table)
          ELSE IF from_note /\ (world.store_read_fails \/ note_id.t # "int")
          THEN Return(Failure("Summary generation failed"), table)
          ELSE IF from_note /\ note = PyNone
          THEN Return(Failure("Note with ID not found"), table)
          ELSE IF generated.raised
          THEN Return(Failure("Summary generation failed"), table)
          ELSE Return(Success([original_content |-> [title |-> original_title,
                                                     content |-> content,
                                                     note_id |-> note_id],
                               generated_summary |-> generated.value.summary,
                               generated_tags |-> normalized_tags],
                              "Summary generated successfully"), table)

process_summarization(action, input_data, table, world) ==
    Guarded(
        IF action = "summarize_existing"
        THEN _summarize_existing_content(input_data, table, world)
        ELSE IF action = "generate_summary"
        THEN _generate_summary(input_data, table, world)
        ELSE Return(Failure("Unknown summarization action"), table),
        "Summarization processing failed")

(***************************************************************************)
(* Inputs of the handlers.                                                 *)
(***************************************************************************)
\* the dicts over every subset of the keys of full, with its values
Restrictions(fulls, keys) == { [k \in K |-> full[k]] : full \in fulls, K \in SUBSET keys }

Cats == <<"C", "a", "t", "s">>

\* a text of n characters
Filler(n) == [i \in 1..n |-> IF i % 2 = 1 THEN "a" ELSE "b"]

AnalyzerAnswers ==
    { [ok |-> FALSE, title |-> <<>>, summary |-> <<>>, tags |-> <<>>,
       key_insights |-> <<>>],
      [ok |-> TRUE, title |-> <<"T">>, summary |-> <<"s", "u", "m">>, tags |-> <<>>,
       key_insights |-> <<"insight">>],
      [ok |-> TRUE, title |-> <<"T">>, summary |-> <<"s", "u", "m">>,
       tags |-> << <<"A", "I", " ">>, <<"a", "i">>, <<"x">>, <<"c", "+", "+">> >>,
       key_insights |-> <<"insight">>] }

SummarizerAnswers ==
    { [ok |-> FALSE, summary |-> PyNone, tags |-> <<>>],
      [ok |-> TRUE, summary |-> PyNone, tags |-> <<>>],
      [ok |-> TRUE, summary |-> PyStr(<<"s", "u", "m">>),
       tags |-> << <<"M", "L">>, <<"m", "l">> >>] }

NoAnalysis ==
    [ok |-> FALSE, title |-> <<>>, summary |-> <<>>, tags |-> <<>>, key_insights |-> <<>>]

NoSummary == [ok |-> FALSE, summary |-> PyNone, tags |-> <<>>]

NoPage == [downloaded |-> FALSE, text |-> PyNone]

QueryWorlds ==
    [embedder_fails : BOOLEAN, store_read_fails : BOOLEAN, store_write_fails : {FALSE},
     vec : {<<1, 0>>}, page : {NoPage}, analysis : {NoAnalysis}, summary : {NoSummary}]

\* the pages ingestion fetches: the fetcher's answers and a long page
IngestionPages ==
    FetchAnswers \cup {[downloaded |-> TRUE, text |-> PyStr(Filler(LongLength))]}

IngestionWorlds ==
    [embedder_fails : BOOLEAN, store_read_fails : BOOLEAN, store_write_fails : BOOLEAN,
     vec : {<<1, 0>>}, page : IngestionPages, analysis : AnalyzerAnswers,
     summary : {NoSummary}]

SummarizationWorlds ==
    [embedder_fails : BOOLEAN, store_read_fails : BOOLEAN, store_write_fails : {FALSE},
     vec : {<<1, 0>>}, page : {NoPage}, analysis : {NoAnalysis},
     summary : SummarizerAnswers]

\* the tables the handlers run on
HandlerTables ==
    { <<>>,
      <<Note(1, <<"n", "o", "t", "e">>, Cats, PyNone, << <<"a", "i">> >>, <<1, 0>>)>>,
      <<Note(1, <<"n", "o", "t", "e">>, Cats, PyNone, << <<"a", "i">> >>, <<1, 0>>),
        Note(2, <<"m", "e", "m", "o">>, <<"d", "o", "g">>, PyStr(<<"s", "u", "m">>),
             <<>>, <<0, 2>>)>> }

QueryInputs ==
    [action : {"search"},
     input_data : Restrictions(
        [query : {PyNone, PyStr(<<>>), PyStr(<<" ">>), PyStr(<<"c", "a", "t">>),
                  PyStr(<<"a", "i", ",", "x">>), PyInt(5)},
         search_type : {Tok("semantic"), Tok("text"), Tok("hybrid"), Tok("tags"),
                        Tok("fuzzy")},
         top_k : {PyInt(1), PyStr(<<"x">>)}],
        {"query", "search_type", "top_k"})]
    \cup
    [action : {"find_similar"},
     input_data : Restrictions(
        [note_id : {PyNone, PyInt(0), PyInt(1), PyInt(9), PyStr(<<"x">>)},
         top_k : {PyInt(1), PyStr(<<"x">>)}],
        {"note_id", "top_k"})]
    \cup
    [action : {"get_recent"},
     input_data : Restrictions([limit : {PyInt(1), PyStr(<<"x">>)}], {"limit"})]
    \cup
    [action : {"empty_input", "delete"}, input_data : Restrictions([limit : {PyInt(1)}], {})]
    \cup
    [action : {"search", "find_similar", "get_recent", "empty_input", "delete"},
     input_data : {PyNone}]

IngestionInputs ==
    [action : {"ingest_url"},
     input_data : Restrictions(
        [url : {PyNone, PyStr(<<>>), PyStr(<<"h", "t", "t", "p", ":", "/", "/", "x">>),
                PyInt(5)}],
        {"url"})]
    \cup
    [action : {"ingest_text"},
     input_data : Restrictions(
        [content : {PyNone, PyStr(<<>>), PyStr(Cats), PyStr(Filler(MediumLength)),
                    PyStr(Filler(LongLength)), PyInt(5)},
         title : {PyNone, PyStr(<<>>), PyStr(<<"T">>)}],
        {"content", "title"})]
    \cup
    [action : {"ingest_url", "ingest_text", "delete"}, input_data : {PyNone}]
    \cup
    [action : {"delete"}, input_data : Restrictions([url : {PyNone}], {})]

SummarizationInputs ==
    [action : {"summarize_existing"},
     input_data : Restrictions(
        [content : {PyNone, PyStr(<<>>), PyStr(<<" ">>), PyStr(Cats), PyInt(5)}],
        {"content"})]
    \cup
    [action : {"generate_summary"},
     input_data : Restrictions(
        [note_id : {PyNone, PyInt(0), PyInt(1), PyInt(9), PyStr(<<"x">>)},
         content : {PyNone, PyStr(<<>>), PyStr(Cats), PyInt(5)},
         title : {PyStr(<<"T">>)}],
        {"note_id", "content", "title"})]
    \cup
    [action : {"summarize_existing", "generate_summary", "delete"}, input_data : {PyNone}]
    \cup
    [action : {"delete"}, input_data : Restrictions([content : {PyNone}], {})]

NoOutcome == [raised |-> FALSE, value |-> PyNone]

HandlerCall(handler, input, world) ==
    [drawn |-> TRUE, called |-> FALSE, handler |-> handler, action |-> input.action,
     input_data |-> input.input_data, world |-> world, out |-> NoOutcome]

HandlerCalls ==
    {HandlerCall("query", i, w) : i \in QueryInputs, w \in QueryWorlds}
    \cup {HandlerCall("ingestion", i, w) : i \in IngestionInputs, w \in IngestionWorlds}
    \cup {HandlerCall("summarization", i, w) :
            i \in SummarizationInputs, w \in SummarizationWorlds}

(***************************************************************************)
(* The handlers' entry points.                                             *)
(***************************************************************************)
\* the orders in which a hybrid search of this call may iterate over its set
\* of note ids; one empty order when the call makes no hybrid search
HybridOrders(input_data, table, world) ==
    IF /\ IsDict(input_data)
       /\ Get(input_data, "query", PyStr(<<>>)).t = "str"
       /\ Get(input_data, "search_type", Tok("semantic")) = Tok("hybrid")
       /\ IsLimit(Get(input_data, "top_k", PyInt(5)))
    THEN IterationOrders(HybridNoteIds(table,
                            Strip(Get(input_data, "query", PyStr(<<>>)).s),
                            world.vec, Get(input_data, "top_k", PyInt(5)).n))
    ELSE {<<>>}

ProcessQuery ==
    /\ pc = "ready"
    /\ hnd.drawn /\ hnd.handler = "query"
    /\ \E set_order \in HybridOrders(hnd.input_data, store, hnd.world) :
       \E out \in {process_query(hnd.action, hnd.input_data, store, hnd.world,
                                 set_order)} :
         /\ hnd' = [hnd EXCEPT !.called = TRUE,
                      !.out = [raised |-> out.raised, value |-> out.value]]
         /\ store' = out.table
    /\ pc' = "done"
    /\ UNCHANGED <<cls, val, srch, req, tgs, sim, llm>>

ProcessIngestion ==
    /\ pc = "ready"
    /\ hnd.drawn /\ hnd.handler = "ingestion"
    /\ \E out \in {process_ingestion(hnd.action, hnd.input_data, store, hnd.world)} :
         /\ hnd' = [hnd EXCEPT !.called = TRUE,
                      !.out = [raised |-> out.raised, value |-> out.value]]
         /\ store' = out.table
    /\ pc' = "done"
    /\ UNCHANGED <<cls, val, srch, req, tgs, sim, llm>>

ProcessSummarization ==
    /\ pc = "ready"
    /\ hnd.drawn /\ hnd.handler = "summarization"
    /\ \E out \in {process_summarization(hnd.action, hnd.input_data, store, hnd.world)} :
         /\ hnd' = [hnd EXCEPT !.called = TRUE,
                      !.out = [raised |-> out.raised, value |-> out.value]]
         /\ store' = out.table
    /\ pc' = "done"
    /\ UNCHANGED <<cls, val, srch, req, tgs, sim, llm>>

HandlersInit ==
    /\ pc = "ready"
    /\ store \in HandlerTables
    /\ hnd \in HandlerCalls
    /\ cls = NoCall
    /\ val = NoCall
    /\ srch = NoCall
    /\ req = NoCall
    /\ tgs = NoCall
    /\ sim = NoCall
    /\ llm = NoCall

HandlersNext == ProcessQuery \/ ProcessIngestion \/ ProcessSummarization

SpecHandlers == HandlersInit /\ [][HandlersNext]_vars

(***************************************************************************)
(* Dispatcher (app/routes/process_input.py).                               *)
(***************************************************************************)
HandlerNames == {"process_ingestion", "process_query", "process_summarization"}

\* a dispatch that gives every request to the query handler
DispatchAllToQuery(agent_type, action, input_data, table, world, set_order) ==
    [handler |-> "process_query",
     out |-> process_query(action, input_data, table, world, set_order)]

\* the if / elif chain over agent_type: the handler invoked and what it gave
\* back; no handler for an agent_type that is none of the three
Dispatch(agent_type, action, input_data, table, world, set_order) ==
    IF agent_type = "ingestion"
    THEN [handler |-> "process_ingestion",
          out |-> process_ingestion(action, input_data, table, world)]
    ELSE IF agent_type = "query"
    THEN [handler |-> "process_query",
          out |-> process_query(action, input_data, table, world, set_order)]
    ELSE IF agent_type = "summarization"
    THEN [handler |-> "process_summarization",
          out |-> process_summarization(action, input_data, table, world)]
    ELSE [handler |-> "none", out |-> Raise(table)]

\* the input_data the dispatcher hands over: the router's, with the request's
\* user_id and metadata
DispatchedInputData(routing_result) ==
    [user_id |-> PyNone, metadata |-> <<>>] @@ routing_result["input_data"]

\* step 3 of process_input: the response for what the dispatch d gave; routed
\* are the calls made before the dispatch
Respond(agent_type, action, d, routed, table) ==
    IF d.handler = "none"
    THEN [status |-> 400, log |-> routed, table |-> table,
          body |-> [detail |-> "Unknown agent type"]]
    ELSE IF d.out.raised
    THEN [status |-> 500, log |-> Append(routed, d.handler), table |-> d.out.table,
          body |-> [detail |-> "Internal server error"]]
    ELSE IF d.out.value.success
    THEN [status |-> 200, log |-> Append(routed, d.handler), table |-> d.out.table,
          body |-> [success |-> TRUE, agent_type |-> agent_type, action |-> action,
                    result |-> d.out.value.result,
                    message |-> d.out.value.message]]
    ELSE [status |-> 200, log |-> Append(routed, d.handler), table |-> d.out.table,
          body |-> [success |-> FALSE, agent_type |-> agent_type, action |-> action,
                    error |-> d.out.value.error,
                    message |-> "Processing failed"]]

\* process_input after classify_input returned routing_result
ValidateAndDispatch(routing_result, table, world, set_order) ==
    IF ~validate_routing(routing_result)
    THEN [status |-> 400, log |-> <<"classify_input", "validate_routing">>,
          table |-> table,
          body |-> [detail |-> "Invalid routing result from router agent"]]
    ELSE Respond(routing_result["agent_type"], routing_result["action"],
                 Dispatch(routing_result["agent_type"], routing_result["action"],
                          DispatchedInputData(routing_result), table, world, set_order),
                 <<"classify_input", "validate_routing">>, table)

\* process_input(request): the HTTP status, the calls made in order, the
\* response body and the table left behind
process_input(input_text, answer, table, world, set_order) ==
    ValidateAndDispatch(classify_input(input_text, answer, world.page).result,
                        table, world, set_order)

(***************************************************************************)
(* Inputs of the dispatcher.                                               *)
(***************************************************************************)
RequestTexts ==
    { <<>>,
      <<" ">>,
      <<"h", "t", "t", "p", "s", ":", "/", "/", "x", ".", "i", "o">>,
      <<"W", "h", "a", "t">>,
      <<"S", "u", "m", "m", "a", "r", "i", "z", "e">>,
      <<"m", "e", "m", "o">> }

DispatchWorlds ==
    [embedder_fails : BOOLEAN, store_read_fails : BOOLEAN, store_write_fails : BOOLEAN,
     vec : {<<1, 0>>}, page : FetchAnswers,
     analysis : {a \in AnalyzerAnswers : a.tags = <<>>},
     summary : {a \in SummarizerAnswers : a.summary # PyNone \/ ~a.ok}]

Requests ==
    [drawn : {TRUE}, called : {FALSE}, input_text : RequestTexts,
     answer : ClassifierAnswers, world : DispatchWorlds,
     status : {0}, log : {<<>>}, body : {<<>>}]

(***************************************************************************)
(* The dispatcher's operation.                                             *)
(***************************************************************************)
ProcessInput ==
    /\ pc = "ready"
    /\ req.drawn
    /\ \E set_order \in HybridOrders(
            DispatchedInputData(
                classify_input(req.input_text, req.answer, req.world.page).result),
            store, req.world) :
       \E response \in {process_input(req.input_text, req.answer, store, req.world,
                                      set_order)} :
         /\ req' = [req EXCEPT !.called = TRUE, !.status = response.status,
                      !.log = response.log, !.body = response.body]
         /\ store' = response.table
    /\ pc' = "done"
    /\ UNCHANGED <<cls, val, srch, hnd, tgs, sim, llm>>

DispatchInit ==
    /\ pc = "ready"
    /\ store \in HandlerTables
    /\ req \in Requests
    /\ cls = NoCall
    /\ val = NoCall
    /\ srch = NoCall
    /\ hnd = NoCall
    /\ tgs = NoCall
    /\ sim = NoCall
    /\ llm = NoCall

DispatchNext == ProcessInput

SpecDispatch == DispatchInit /\ [][DispatchNext]_vars

(***************************************************************************)
(* Properties of the router.                                               *)
(***************************************************************************)
Count(seq, x) == Cardinality({i \in 1..Len(seq) : seq[i] = x})

IsBlank(text) == \A i \in 1..Len(text) : text[i] \in Whitespace

\* the classifier call returned a decision the RoutingDecision model accepts
ClassifierSucceeded(answer) ==
    answer.ok /\ answer.confidence >= 0 /\ answer.confidence <= 100

Returned == pc = "done" /\ cls.called

\* C1: for every non-empty input classify_input invokes the structured
\* classifier exactly once; the fallback rules are evaluated only after that
\* invocation failed; when the classifier succeeds the returned agent_type,
\* action, confidence and reasoning are the classifier's.
C1_ClassifierOnceFallbackOnlyOnFailure ==
    (Returned /\ ~IsBlank(cls.input)) =>
        /\ Count(cls.calls, "classifier") = 1
        /\ Count(cls.calls, "fallback") <= 1
        /\ Count(cls.calls, "fallback") = 1 =>
              /\ ~ClassifierSucceeded(cls.answer)
              /\ cls.calls[Len(cls.calls)] = "fallback"
              /\ cls.calls[Len(cls.calls) - 1] = "classifier"
        /\ ClassifierSucceeded(cls.answer) =>
              /\ cls.result.agent_type = cls.answer.agent_type
              /\ cls.result.action = cls.answer.action
              /\ cls.result.confidence = Conf("float", cls.answer.confidence)
              /\ cls.result.reasoning = cls.answer.reasoning

\* a non-empty input whose classifier answered query/search with confidence 1.0
\* although the text holds a summarization keyword: the answer is returned
C1_Witness ==
    /\ Returned /\ ~IsBlank(cls.input)
    /\ ClassifierSucceeded(cls.answer)
    /\ cls.answer.agent_type = "query" /\ cls.answer.confidence = 100
    /\ Contains(Lower(cls.input), <<"b", "r", "i", "e", "f">>)
    /\ cls.result.agent_type = "query"
    /\ cls.calls = <<"classifier">>

\* C2: for every empty or whitespace-only input classify_input returns
\* query / empty_input with confidence 1.0 and invokes neither the classifier,
\* nor the fetcher, nor the fallback rules.
C2_EmptyInputShortcut ==
    (Returned /\ IsBlank(cls.input)) =>
        /\ cls.result.agent_type = "query"
        /\ cls.result.action = "empty_input"
        /\ cls.result.confidence = Conf("float", 100)
        /\ cls.calls = <<>>

\* a whitespace-only input of two characters, with a classifier that would
\* have answered
C2_Witness ==
    /\ Returned /\ Len(cls.input) = 2 /\ IsBlank(cls.input)
    /\ cls.answer.ok
    /\ cls.result.action = "empty_input"

HttpPrefix == <<"h", "t", "t", "p", ":", "/", "/">>

HttpsPrefix == <<"h", "t", "t", "p", "s", ":", "/", "/">>

\* C3: when the classifier fails, every input that starts with http:// or
\* https:// is routed to ingestion / ingest_url with confidence 0.95, whatever
\* keywords the URL holds and whether or not fetching it yielded content.
C3_FallbackUrl ==
    (/\ Returned
     /\ ~ClassifierSucceeded(cls.answer)
     /\ (StartsWith(cls.input, HttpPrefix) \/ StartsWith(cls.input, HttpsPrefix))) =>
        /\ cls.result.agent_type = "ingestion"
        /\ cls.result.action = "ingest_url"
        /\ cls.result.confidence = Conf("float", 95)

\* an https URL holding a summarization keyword, whose fetch yielded nothing
C3_Witness ==
    /\ Returned
    /\ ~cls.answer.ok
    /\ StartsWith(cls.input, HttpsPrefix)
    /\ Contains(cls.input, <<"s", "u", "m", "m", "a", "r", "y">>)
    /\ ~cls.page.downloaded
    /\ cls.result.action = "ingest_url"
    /\ cls.result.input_data.content = PyNone

SummaryWordsOfTheClaim ==
    { <<"s", "u", "m", "m", "a", "r", "i", "z", "e">>,
      <<"s", "u", "m", "m", "a", "r", "y">>,
      <<"b", "r", "i", "e", "f">>,
      <<"o", "v", "e", "r", "v", "i", "e", "w">> }

QuestionWordsOfTheClaim ==
    { <<"w", "h", "a", "t">>, <<"h", "o", "w">>, <<"w", "h", "e", "r", "e">>,
      <<"w", "h", "e", "n">>, <<"w", "h", "o">>, <<"f", "i", "n", "d">>,
      <<"s", "e", "a", "r", "c", "h">> }

HoldsAnyOf(text, words) == \E w \in words : Contains(Lower(text), w)

IsNonUrlText(text) ==
    /\ ~IsBlank(text)
    /\ ~StartsWith(Strip(text), HttpPrefix)
    /\ ~StartsWith(Strip(text), HttpsPrefix)

\* C4: when the classifier fails and the input is non-URL text, the fallback
\* decides by case-insensitive keyword presence, in this order: a summarization
\* keyword gives summarization / summarize_existing (0.8) even when a question
\* keyword is present too; otherwise a question keyword gives query / search
\* (0.9); otherwise ingestion / ingest_text (0.85).
C4_FallbackKeywordOrder ==
    (Returned /\ ~ClassifierSucceeded(cls.answer) /\ IsNonUrlText(cls.input)) =>
        IF HoldsAnyOf(cls.input, SummaryWordsOfTheClaim)
        THEN /\ cls.result.agent_type = "summarization"
             /\ cls.result.action = "summarize_existing"
             /\ cls.result.confidence = Conf("float", 80)
        ELSE IF HoldsAnyOf(cls.input, QuestionWordsOfTheClaim)
        THEN /\ cls.result.agent_type = "query"
             /\ cls.result.action = "search"
             /\ cls.result.confidence = Conf("float", 90)
        ELSE /\ cls.result.agent_type = "ingestion"
             /\ cls.result.action = "ingest_text"
             /\ cls.result.confidence = Conf("float", 85)

\* a text holding a question keyword followed by an upper-case summarization
\* keyword: summarization wins
C4_Witness ==
    /\ Returned /\ ~cls.answer.ok
    /\ cls.input = <<"W", "h", "a", "t", "B", "R", "I", "E", "F">>
    /\ cls.result.agent_type = "summarization"

\* C5: validate_routing(d) is true iff d holds the keys agent_type, action,
\* input_data and confidence, d.agent_type is one of ingestion, query,
\* summarization, and d.confidence is a number in [0, 1]; a confidence of 1.5
\* and a decision without input_data are rejected.
C5_ValidateRoutingIff ==
    (pc = "done" /\ val.called) =>
        LET d == val.arg
            wellFormed ==
                /\ {"agent_type", "action", "input_data", "confidence"} \subseteq DOMAIN d
                /\ d.agent_type \in {"ingestion", "query", "summarization"}
                /\ d.confidence.kind \in {"int", "float", "bool"}
                /\ ~d.confidence.nan
                /\ d.confidence.val >= 0 /\ d.confidence.val <= 100
        IN  /\ val.result <=> wellFormed
            /\ ("confidence" \in DOMAIN d /\ d.confidence.val = 150) => ~val.result
            /\ "input_data" \notin DOMAIN d => ~val.result

\* a decision with every key and a known agent_type, rejected for its
\* confidence of 1.5
C5_Witness ==
    /\ pc = "done" /\ val.called
    /\ DOMAIN val.arg = DictKeys
    /\ val.arg.agent_type = "query"
    /\ val.arg.confidence = Conf("float", 150)
    /\ ~val.result

(***************************************************************************)
(* Properties of the retrieval engine.                                     *)
(***************************************************************************)
Searched == pc = "done" /\ srch.called /\ srch.op = "search"

IsPrefix(a, b) == Len(a) <= Len(b) /\ SubSeq(b, 1, Len(a)) = a

\* C7: for every query and top_k, hybrid search with semantic_weight 1.0
\* returns the same notes in the same order as semantic search with that top_k.
C7_HybridWeightOneIsSemantic ==
    (Searched /\ srch.weight = 100) => srch.results.hybrid = srch.results.semantic

\* weight 1.0, a lexical match that the hybrid result leaves out, and a nearest
\* note that is not the first note of the table
C7_Witness ==
    /\ Searched /\ srch.weight = 100
    /\ srch.results.hybrid # <<>>
    /\ srch.results.hybrid[1].id # 1
    /\ \E i \in 1..Len(srch.results.text) :
          srch.results.text[i].id \notin Ids(srch.results.hybrid)

\* C8 as stated: for every query and top_k, hybrid search with semantic_weight
\* 0.0 returns the same notes in the same order as lexical search with that
\* top_k, also when the lexical search matches fewer than top_k notes.
C8_HybridWeightZeroIsLexical ==
    (Searched /\ srch.weight = 0) => srch.results.hybrid = srch.results.text

\* C8 as amended: with semantic_weight 0.0 the lexical results come first, in
\* lexical order; the two results are equal when the lexical search fills
\* top_k; otherwise the places left are taken by notes that only the semantic
\* search found.
C8_HybridWeightZeroLexicalFirst ==
    (Searched /\ srch.weight = 0) =>
        /\ IsPrefix(srch.results.text, srch.results.hybrid)
        /\ Len(srch.results.text) = srch.top_k =>
              srch.results.hybrid = srch.results.text
        /\ \A i \in (Len(srch.results.text) + 1)..Len(srch.results.hybrid) :
              /\ srch.results.hybrid[i].id \notin Ids(srch.results.text)
              /\ srch.results.hybrid[i].id \in
                    Ids(semantic_search(store, srch.query_vec, 2 * srch.top_k))

\* weight 0.0, one lexical match for a top_k of two: the hybrid result holds a
\* second note
C8_Witness ==
    /\ Searched /\ srch.weight = 0 /\ srch.top_k = 2
    /\ Len(srch.results.text) = 1
    /\ Len(srch.results.hybrid) = 2

DistanceTo(note_id, n) ==
    SquaredDistance(n.embedding, get_note_by_id(store, note_id).embedding)

\* the place of a note in the table's nearest-first answer for the embedding
\* of the note with id note_id
PlaceNearestFirst(note_id, n) ==
    RankOf(semantic_search_pgvector(store, get_note_by_id(store, note_id).embedding,
                                    Len(store)), n.id)

\* C9: find_similar_notes returns at most top_k notes, never the note whose id
\* is note_id, in the table's nearest-first order, and the empty list when no
\* note has that id.
C9_FindSimilar ==
    (pc = "done" /\ srch.called /\ srch.op = "find_similar") =>
        LET r == srch.results.similar
        IN  /\ Len(r) <= srch.top_k
            /\ \A i \in 1..Len(r) : r[i].id # srch.note_id
            /\ \A i \in 1..Len(r) : \E j \in 1..Len(store) : r[i] = store[j]
            /\ \A i, j \in 1..Len(r) : i < j =>
                  /\ DistanceTo(srch.note_id, r[i]) <= DistanceTo(srch.note_id, r[j])
                  /\ PlaceNearestFirst(srch.note_id, r[i])
                        < PlaceNearestFirst(srch.note_id, r[j])
            /\ (\A j \in 1..Len(store) : store[j].id # srch.note_id) => r = <<>>

\* three notes with one embedding, the last one asked for with top_k = 1: the
\* nearest two are the other two, and one of them is returned
C9_Witness ==
    /\ pc = "done" /\ srch.called /\ srch.op = "find_similar"
    /\ Len(store) = 3 /\ srch.note_id = 3 /\ srch.top_k = 1
    /\ store[1].embedding = store[3].embedding
    /\ store[2].embedding = store[3].embedding
    /\ Len(srch.results.similar) = 1

(***************************************************************************)
(* Properties of the dispatcher.                                           *)
(***************************************************************************)
Dispatched == pc = "done" /\ req.called

\* the routing decision of the request
Decision == classify_input(req.input_text, req.answer, req.world.page).result

\* the handler invocations of the request, in order
HandlerInvocations == SelectSeq(req.log, LAMBDA call : call \in HandlerNames)

\* the handler that matches an agent_type
MatchingHandler(agent_type) ==
    CASE agent_type = "ingestion" -> "process_ingestion"
      [] agent_type = "query" -> "process_query"
      [] agent_type = "summarization" -> "process_summarization"

\* C6: in the dispatcher, validation of the routing decision precedes handler
\* invocation: a request whose routing decision fails validate_routing is
\* rejected with HTTP 400 and no handler is invoked; for a valid decision
\* exactly one handler, the one matching agent_type, is invoked exactly once.
C6_ValidationBeforeDispatch ==
    Dispatched =>
        /\ \A i \in 1..Len(req.log) : req.log[i] \in HandlerNames =>
              \E j \in 1..(i - 1) : req.log[j] = "validate_routing"
        /\ ~validate_routing(Decision) =>
              req.status = 400 /\ HandlerInvocations = <<>>
        /\ validate_routing(Decision) =>
              HandlerInvocations = <<MatchingHandler(Decision["agent_type"])>>

\* a request the classifier gives to an agent that does not exist is rejected,
\* and the table is as it was
C6_Witness ==
    /\ Dispatched
    /\ req.answer.ok /\ req.answer.agent_type = "chat" /\ req.answer.confidence = 100
    /\ Strip(req.input_text) # <<>>
    /\ ~validate_routing(Decision)
    /\ req.status = 400

(***************************************************************************)
(* Properties of the handlers.                                             *)
(***************************************************************************)
Handled == pc = "done" /\ hnd.called

\* a result envelope: a dict with success and result, an error when it failed
IsEnvelope(value) ==
    /\ {"success", "result"} \subseteq DOMAIN value
    /\ value.success \in BOOLEAN
    /\ ~value.success => "error" \in DOMAIN value

\* C10: each handler entry point (process_query, process_ingestion,
\* process_summarization) is total: for every action and every input_data, and
\* for every failure of the fetcher, analyzer, summarizer, embedder or store, it
\* returns a result envelope and no exception escapes.
C10_HandlersTotal ==
    Handled => ~hnd.out.raised /\ IsEnvelope(hnd.out.value)

\* an ingestion whose analyzer and embedder both fail: the exception of the
\* embedder is raised outside the inner try blocks, and the entry point answers
\* with its own failure envelope
C10_Witness ==
    /\ Handled /\ hnd.handler = "ingestion" /\ hnd.action = "ingest_text"
    /\ ~hnd.world.analysis.ok /\ hnd.world.embedder_fails
    /\ ~hnd.out.raised
    /\ hnd.out.value = Failure("Ingestion failed")

\* C11 as stated: every envelope a handler returns, on success and on failure
\* alike, carries success (a boolean) and message (a string); a failure
\* envelope carries a non-empty error string and a null result, a success
\* envelope a non-null result.
C11_EnvelopeFieldsAlways ==
    Handled =>
        LET envelope == hnd.out.value
        IN  /\ {"success", "message"} \subseteq DOMAIN envelope
            /\ envelope.success \in BOOLEAN
            /\ ~envelope.success =>
                  /\ "error" \in DOMAIN envelope /\ envelope.error # ""
                  /\ envelope.result = PyNone
            /\ envelope.success => envelope.result # PyNone

\* C11 as amended: every envelope carries success (a boolean) and result; a
\* success envelope carries a message and a non-null result; a failure envelope
\* carries a non-empty error string and a null result, and no message.
C11_EnvelopeFields ==
    Handled =>
        LET envelope == hnd.out.value
        IN  /\ {"success", "result"} \subseteq DOMAIN envelope
            /\ envelope.success \in BOOLEAN
            /\ envelope.success =>
                  /\ "message" \in DOMAIN envelope /\ envelope.message # ""
                  /\ envelope.result # PyNone
            /\ ~envelope.success =>
                  /\ "error" \in DOMAIN envelope /\ envelope.error # ""
                  /\ envelope.result = PyNone
                  /\ "message" \notin DOMAIN envelope

\* a search without a query: the failure envelope of a validation error
C11_Witness ==
    /\ Handled /\ hnd.handler = "query" /\ hnd.action = "search"
    /\ hnd.out.value = Failure("Search query is required")
    /\ DOMAIN hnd.out.value = {"success", "error", "result"}

\* the title and the content an ingestion call hands to the pipeline
GivenTitle ==
    IF hnd.action = "ingest_text" THEN Get(hnd.input_data, "title", PyNone) ELSE PyNone

IngestedContent ==
    IF hnd.action = "ingest_text" THEN Get(hnd.input_data, "content", PyNone)
    ELSE fetch_url_content(hnd.world.page).content

\* an ingestion that reached the pipeline with a text, whose analyzer failed
\* while the embedder and the store worked
AnalyzerFailedAlone ==
    /\ Handled /\ hnd.handler = "ingestion"
    /\ hnd.action \in {"ingest_text", "ingest_url"}
    /\ IsDict(hnd.input_data)
    /\ hnd.action = "ingest_url" =>
          Get(hnd.input_data, "url", PyNone).t = "str"
          /\ Truthy(Get(hnd.input_data, "url", PyNone))
    /\ IngestedContent.t = "str" /\ Truthy(IngestedContent)
    /\ ~hnd.world.analysis.ok
    /\ ~hnd.world.embedder_fails
    /\ ~hnd.world.store_read_fails /\ ~hnd.world.store_write_fails

\* C12: when the content analysis fails during an ingestion (and the embedder
\* and the store work), the pipeline does not fail: it returns success and
\* persists the note with title = the given title if one was supplied, otherwise
\* the first 80 characters of the content, summary = the first 200 characters
\* of the content, no tags, content_type "text" and no insights.
C12_AnalyzerFallback ==
    AnalyzerFailedAlone =>
        /\ ~hnd.out.raised
        /\ hnd.out.value.success
        /\ LET result == hnd.out.value.result
               note == get_note_by_id(store, result.note.id)
           IN  /\ note # PyNone
               /\ note.id = Len(store)
               /\ note.content = IngestedContent.s
               /\ note.title = IF Truthy(GivenTitle) THEN GivenTitle.s
                               ELSE Take(IngestedContent.s, 80)
               /\ note.summary = PyStr(Take(IngestedContent.s, 200))
               /\ note.tags = <<>>
               /\ result.analysis.content_type = "text"
               /\ result.analysis.key_insights = <<>>

\* a text longer than 200 characters ingested without a title while the
\* analyzer is down: the note is stored under an 80-character title and a
\* 200-character summary
C12_Witness ==
    /\ AnalyzerFailedAlone /\ hnd.action = "ingest_text"
    /\ ~Truthy(GivenTitle)
    /\ Len(IngestedContent.s) > 200
    /\ hnd.out.value.success
    /\ Len(Last(store).title) = 80 /\ Len(Last(store).summary.s) = 200
    /\ Last(store).tags = <<>>

\* a find_similar call whose note_id is an integer that no note of the store
\* has, while the store answers its queries
FindSimilarOfMissingNote ==
    /\ Handled /\ hnd.handler = "query" /\ hnd.action = "find_similar"
    /\ IsDict(hnd.input_data)
    /\ Get(hnd.input_data, "note_id", PyNone).t = "int"
    /\ get_note_by_id(store, Get(hnd.input_data, "note_id", PyNone).n) = PyNone
    /\ ~hnd.world.store_read_fails

\* C13: for every store state, find_similar with a note_id that is not in the
\* store returns success:false with the not-found error of that id ("Note with
\* ID <id> not found"), and never raises.
C13_FindSimilarNotFound ==
    FindSimilarOfMissingNote =>
        /\ ~hnd.out.raised
        /\ hnd.out.value = Failure("Note with ID not found")

(***************************************************************************)
(* Calls of normalize_tags.                                                *)
(***************************************************************************)
\* the longest list of tags a call is given
MaxTags == 2

\* the tags of the lists: plain ones, the same tgs in another case and with a
\* space after it, a tgs of one character, tags with a space, with a comma, and
\* with punctuation before a space
TagStrings ==
    { <<"a", "i">>, <<"A", "I", " ">>, <<"x">>, <<"m", "l", "-", "o", "p", "s">>,
      <<"v", "e", "c", "t", "o", "r", " ", "d", "b">>, <<"a", ",", "b">>,
      <<"!", " ", "a", "b">> }

TagLists == UNION {[1..n -> TagStrings] : n \in 0..MaxTags}

\* s.join(parts)
RECURSIVE JoinWith(_, _)
JoinWith(parts, sep) ==
    IF parts = <<>> THEN <<>>
    ELSE IF Len(parts) = 1 THEN parts[1]
    ELSE parts[1] \o sep \o JoinWith(Tail(parts), sep)

\* the JSON array of a list of tags that hold no quote, backslash or control
\* character: ["ai", "ml"]
JsonArrayOf(strings) ==
    <<"[">> \o JoinWith([i \in 1..Len(strings) |-> <<"\"">> \o strings[i] \o <<"\"">>],
                        <<",", " ">>) \o <<"]">>

\* the array literal of such a list: {ai,"vector db"}; an element is quoted when
\* it is empty or holds a comma, a brace or whitespace
NeedsQuotes(s) == s = <<>> \/ \E i \in 1..Len(s) : s[i] \in {",", "{", "}", " "}

ArrayLiteralOf(strings) ==
    <<"{">> \o JoinWith([i \in 1..Len(strings) |->
                            IF NeedsQuotes(strings[i])
                            THEN <<"\"">> \o strings[i] \o <<"\"">>
                            ELSE strings[i]],
                        <<",">>) \o <<"}">>

\* list(s): the characters of a string
Characters(s) == PyList([i \in 1..Len(s) |-> PyStr(<<s[i]>>)])

Representations ==
    {"list", "tuple", "comma_separated", "json", "array_literal",
     "json_characters", "array_literal_characters"}

\* a list of tags in a representation
Represent(strings, rep) ==
    CASE rep = "list" -> StrList(strings)
      [] rep = "tuple" -> PyTuple(StrList(strings).items)
      [] rep = "comma_separated" -> PyStr(JoinWith(strings, <<",", " ">>))
      [] rep = "json" -> PyStr(JsonArrayOf(strings))
      [] rep = "array_literal" -> PyStr(ArrayLiteralOf(strings))
      [] rep = "json_characters" -> Characters(JsonArrayOf(strings))
      [] rep = "array_literal_characters" -> Characters(ArrayLiteralOf(strings))

\* other arguments: nothing, values of other types, strings no strategy
\* parses, lists with elements that are not strings
OtherTagValues ==
    { PyNone, PyInt(0), PyInt(5), PyBool(TRUE), PyDict(<<>>), PyDict(<<PyStr(<<"a">>)>>),
      PyStr(<<>>), PyStr(<<" ">>), PyStr(<<"a", "i">>), PyStr(<<"[">>), PyStr(<<"{">>),
      PyStr(<<"[", "a", "i", "]">>), PyStr(<<"[", "a", "i">>),
      PyStr(<<"[", "5", "]">>), PyStr(<<"[", "\"", "a", "i", "]">>),
      PyStr(<<"{", "}">>), PyStr(<<"{", "a", "i">>),
      PyList(<<PyInt(5), PyStr(<<"a", "i">>), PyNone, PyList(<<PyStr(<<"m", "l">>)>>)>>),
      PyTuple(<<PyInt(5)>>),
      \* more than ten parts between brackets, one of them not a string
      PyList(<<PyStr(<<"[">>), PyInt(5)>> \o Characters(<<"\"", "a", "i", "\"", ",", "\"",
                                                          "m", "l", "\"", "]">>).items),
      \* the characters of texts that are not arrays
      Characters(<<"[", "a", "i", ",", " ", "m", "l", ",", " ", "x", "y", "}">>),
      Characters(<<"{", "\"", "a", "i", "\"", ":", " ", "\"", "m", "l", "\"", "}">>),
      Characters(<<"{", "a", "i", ",", " ", "m", "l", ",", " ", "x", "y", "]">>) }

NoTags == Returns(<<>>)

TagCalls ==
    {[drawn |-> TRUE, called |-> FALSE, given |-> strings, rep |-> rep,
      input |-> Represent(strings, rep), out |-> NoTags, again |-> NoTags] :
        strings \in TagLists, rep \in Representations}
    \cup {[drawn |-> TRUE, called |-> FALSE, given |-> <<>>, rep |-> "other",
           input |-> value, out |-> NoTags, again |-> NoTags] : value \in OtherTagValues}

\* normalize_tags(tags)
NormalizeTags ==
    /\ pc = "ready"
    /\ tgs.drawn
    /\ \E out \in {normalize_tags(tgs.input)} :
         tgs' = [tgs EXCEPT !.called = TRUE, !.out = out]
    /\ pc' = "done"
    /\ UNCHANGED <<cls, val, store, srch, hnd, req, sim, llm>>

\* normalize_tags(result) on the list the first call returned
NormalizeAgain ==
    /\ pc = "done"
    /\ tgs.drawn /\ tgs.called /\ ~tgs.out.raised
    /\ \E out \in {normalize_tags(StrList(tgs.out.value))} :
         tgs' = [tgs EXCEPT !.again = out]
    /\ pc' = "again"
    /\ UNCHANGED <<cls, val, store, srch, hnd, req, sim, llm>>

TagsInit ==
    /\ pc = "ready"
    /\ tgs \in TagCalls
    /\ store = <<>>
    /\ cls = NoCall
    /\ val = NoCall
    /\ srch = NoCall
    /\ hnd = NoCall
    /\ req = NoCall
    /\ sim = NoCall
    /\ llm = NoCall

TagsNext == NormalizeTags \/ NormalizeAgain

SpecTags == TagsInit /\ [][TagsNext]_vars

(***************************************************************************)
(* Claims on the tag normalizer.                                           *)
(***************************************************************************)
Normalized == pc \in {"done", "again"} /\ tgs.called

NormalizedAgain == pc = "again" /\ tgs.called

\* the native list of the call's tags, normalized
NativeTokens == normalize_tags(StrList(tgs.given)).value

\* C15: the Tag Normalizer is idempotent: for every input in a supported
\* representation (list of strings, comma-separated string, JSON-array string,
\* brace-literal string), normalizing the output again gives the output.
C15_Idempotent ==
    NormalizedAgain /\ tgs.rep \in {"list", "comma_separated", "json", "array_literal"}
        => ~tgs.again.raised /\ tgs.again.value = tgs.out.value

\* C16: for every brace-delimited or JSON-array tag string s (with elements that
\* are quoted and contain commas too), normalizing the list of the characters
\* of s gives what normalizing s gives.
C16_CharactersAsString ==
    Normalized /\ tgs.rep \in {"json_characters", "array_literal_characters"}
        => tgs.out = normalize_tags(PyStr(Concat(tgs.input.items)))

\* the place of the first tag of the given list whose clean form is the token
FirstOccurrence(token) ==
    CHOOSE i \in 1..Len(tgs.given) :
        /\ CleanTag(tgs.given[i]) = token
        /\ \A j \in 1..(i - 1) : CleanTag(tgs.given[j]) # token

NullEmptyOrUnparseable(value) ==
    \/ ~Truthy(value)
    \/ /\ value.t = "str"
       /\ \A i \in 1..Len(value.s) : value.s[i] # ","
       /\ StartsWith(value.s, <<"[">>) /\ EndsWith(value.s, <<"]">>)
       /\ json_loads(value.s).raised

\* C18: normalize_tags never raises: for every argument (null, empty, a string
\* no strategy parses, a list with elements that are not strings, a value of
\* another type) it returns a list, and it returns the empty list for a null,
\* an empty and an unparseable argument.
C18_NeverRaises ==
    Normalized =>
        /\ ~tgs.out.raised
        /\ DOMAIN tgs.out.value = 1..Len(tgs.out.value)
        /\ \A p \in 1..Len(tgs.out.value) : Len(tgs.out.value[p]) > 1
        /\ NullEmptyOrUnparseable(tgs.input) => tgs.out.value = <<>>
        /\ tgs.input.t \notin {"str", "list", "tuple"} => tgs.out.value = <<>>

\* the text [ai], which is no JSON: json.loads raises, and the call returns the
\* empty list
C18_Witness ==
    /\ Normalized /\ tgs.rep = "other"
    /\ tgs.input = PyStr(<<"[", "a", "i", "]">>)
    /\ json_loads(tgs.input.s).raised
    /\ tgs.out = Returns(<<>>)

\* C19: for every list L of tag strings, normalizing the JSON array of L, or
\* the brace-delimited array literal of L, gives what normalizing the list L
\* gives.
C19_EncodingsAsList ==
    Normalized /\ tgs.rep \in {"json", "array_literal"}
        => ~tgs.out.raised /\ tgs.out.value = NativeTokens

(***************************************************************************)
(* Similarity scorer (app/agents/tools/embedding.py). A score is kept      *)
(* exactly: the cosine dot / (norm1 * norm2) as its sign and its square in *)
(* lowest terms, so that two scores are equal as records exactly when they *)
(* are equal as numbers.                                                   *)
(***************************************************************************)
\* the longest embedding of a call
MaxDim == 2

Coordinates == {-1, 0, 1, 2}

Embeddings == UNION {[1..n -> Coordinates] : n \in 0..MaxDim}

RECURSIVE GCD(_, _)
GCD(a, b) == IF b = 0 THEN a ELSE GCD(b, a % b)

Sign(n) == IF n > 0 THEN 1 ELSE IF n < 0 THEN -1 ELSE 0

ZeroScore == [sign |-> 0, num |-> 0, den |-> 1]

\* np.pad(vec, (0, max_len - len(vec)), mode='constant')
Pad(vec, max_len) == [i \in 1..max_len |-> IF i <= Len(vec) THEN vec[i] ELSE 0]

\* np.dot(vec1, vec2) of two vectors of one length
RECURSIVE Dot(_, _)
Dot(vec1, vec2) ==
    IF vec1 = <<>> THEN 0 ELSE Head(vec1) * Head(vec2) + Dot(Tail(vec1), Tail(vec2))

\* what a division by a zero norm gives: nan or inf, no number
NotANumber == [sign |-> 0, num |-> 0, den |-> 0]

\* dot_product / (norm1 * norm2), the norms given by their squares
Quotient(dot_product, norm1_squared, norm2_squared) ==
    IF norm1_squared * norm2_squared = 0 THEN NotANumber
    ELSE LET den == norm1_squared * norm2_squared
             g == GCD(den, dot_product * dot_product)
         IN  [sign |-> Sign(dot_product), num |-> (dot_product * dot_product) \div g,
              den |-> den \div g]

\* a score that tests the norm of the first vector only
CosineTestingFirstNorm(dot_product, norm1_squared, norm2_squared) ==
    IF norm1_squared = 0 THEN [value |-> ZeroScore, divided |-> FALSE]
    ELSE [value |-> Quotient(dot_product, norm1_squared, norm2_squared), divided |-> TRUE]

\* lines 53-57: 0.0 when a norm is zero, else float(dot_product / (norm1 * norm2));
\* the score, and whether the division was made
Cosine(dot_product, norm1_squared, norm2_squared) ==
    IF norm1_squared = 0 \/ norm2_squared = 0
    THEN [value |-> ZeroScore, divided |-> FALSE]
    ELSE [value |-> Quotient(dot_product, norm1_squared, norm2_squared), divided |-> TRUE]

\* a score for which only the second vector is fitted to the first
compute_similarity_fitting_second(embedding1, embedding2) ==
    Cosine(Dot(embedding1, Pad(embedding2, Len(embedding1))),
           Dot(embedding1, embedding1),
           Dot(Pad(embedding2, Len(embedding1)), Pad(embedding2, Len(embedding1))))

\* compute_similarity(embedding1, embedding2)
compute_similarity(embedding1, embedding2) ==
    LET max_len == IF Len(embedding1) > Len(embedding2) THEN Len(embedding1)
                   ELSE Len(embedding2)
        vec1 == IF Len(embedding1) < max_len THEN Pad(embedding1, max_len) ELSE embedding1
        vec2 == IF Len(embedding2) < max_len THEN Pad(embedding2, max_len) ELSE embedding2
    IN  Cosine(Dot(vec1, vec2), Dot(vec1, vec1), Dot(vec2, vec2))

\* what the caller passes for an embedding: a vector of numbers, nothing (the
\* embedding of a note that has none), or a value that is no vector of numbers
EmbeddingKinds == {"vector", "null", "malformed"}

\* compute_similarity on what the caller passes: np.array(None) has no len(),
\* and the dot product of values that are no numbers raises
compute_similarity_of(kind1, embedding1, kind2, embedding2) ==
    IF kind1 # "vector" \/ kind2 # "vector" THEN Raises
    ELSE Returns(compute_similarity(embedding1, embedding2).value)

\* a wrapper whose except clause was forgotten
_calculate_similarity_score_unguarded(kind1, embedding1, kind2, embedding2) ==
    compute_similarity_of(kind1, embedding1, kind2, embedding2)

\* QueryAgent._calculate_similarity_score and its twin of the ingestion handler
_calculate_similarity_score(kind1, embedding1, kind2, embedding2) ==
    IF compute_similarity_of(kind1, embedding1, kind2, embedding2).raised
    THEN Returns(ZeroScore)
    ELSE compute_similarity_of(kind1, embedding1, kind2, embedding2)

SimilarityCalls ==
    { c \in [drawn : {TRUE}, called : {FALSE}, kind1 : EmbeddingKinds,
              kind2 : EmbeddingKinds, embedding1 : Embeddings, embedding2 : Embeddings,
              score : {ZeroScore}, swapped : {ZeroScore}, divided : {FALSE},
              raised : {FALSE},
              wrapped : {Returns(ZeroScore)}] :
        /\ c.kind1 # "vector" => c.embedding1 = <<>>
        /\ c.kind2 # "vector" => c.embedding2 = <<>> }

\* compute_similarity(embedding1, embedding2)
ComputeSimilarity ==
    /\ pc = "ready"
    /\ sim.drawn
    /\ IF compute_similarity_of(sim.kind1, sim.embedding1,
                                sim.kind2, sim.embedding2).raised
       THEN sim' = [sim EXCEPT !.called = TRUE, !.raised = TRUE]
       ELSE \E out \in {compute_similarity(sim.embedding1, sim.embedding2)} :
              sim' = [sim EXCEPT !.called = TRUE, !.score = out.value,
                                 !.divided = out.divided]
    /\ pc' = "done"
    /\ UNCHANGED <<cls, val, store, srch, hnd, req, tgs, llm>>

\* compute_similarity(embedding2, embedding1)
ComputeSimilaritySwapped ==
    /\ pc = "done"
    /\ sim.drawn /\ sim.called /\ ~sim.raised
    /\ sim' = [sim EXCEPT
                 !.swapped = compute_similarity(sim.embedding2, sim.embedding1).value]
    /\ pc' = "again"
    /\ UNCHANGED <<cls, val, store, srch, hnd, req, tgs, llm>>

SimilarityInit ==
    /\ pc = "ready"
    /\ sim \in SimilarityCalls
    /\ store = <<>>
    /\ cls = NoCall
    /\ val = NoCall
    /\ srch = NoCall
    /\ hnd = NoCall
    /\ req = NoCall
    /\ tgs = NoCall
    /\ llm = NoCall

\* self._calculate_similarity_score(embedding1, embedding2)
CalculateSimilarityScore ==
    /\ pc = "ready"
    /\ sim.drawn
    /\ \E out \in {_calculate_similarity_score(sim.kind1, sim.embedding1,
                                                sim.kind2, sim.embedding2)} :
         sim' = [sim EXCEPT !.called = TRUE, !.wrapped = out]
    /\ pc' = "scored"
    /\ UNCHANGED <<cls, val, store, srch, hnd, req, tgs, llm>>

SimilarityNext ==
    ComputeSimilarity \/ ComputeSimilaritySwapped \/ CalculateSimilarityScore

SpecSimilarity == SimilarityInit /\ [][SimilarityNext]_vars

\* C20: the similarity score is symmetric: for all vectors a and b, vectors of
\* different lengths too, compute_similarity(a, b) equals
\* compute_similarity(b, a).
C20_Symmetric ==
    pc = "again" /\ sim.called => sim.score = sim.swapped

\* a vector of one coordinate against one of two: the shorter is padded, and
\* the score (its square is 1/2) is the same in both orders
C20_Witness ==
    /\ pc = "again" /\ sim.called
    /\ sim.embedding1 = <<1>> /\ sim.embedding2 = <<1, 1>>
    /\ sim.score = [sign |-> 1, num |-> 1, den |-> 2]
    /\ sim.swapped = sim.score

(***************************************************************************)
(* The /add_note endpoint (app/main.py) and sequences of requests that     *)
(* create notes.                                                           *)
(***************************************************************************)
\* create_note(note): the response and the table after it, or an exception
\* (an HTTPException, or what the summarizer, the embedder or the store raised)
create_note(note, table, world) ==
    LET from_url == ~Truthy(note.content) /\ Truthy(note.url)
        fetched == fetch_url_content(world.page)
        resolved_content == IF from_url THEN fetched.content ELSE note.content
        resolved_title == IF from_url /\ ~Truthy(note.title) /\ Truthy(fetched.title)
                          THEN fetched.title ELSE note.title
        final_title == IF ~Truthy(resolved_title)
                       THEN PyStr(Take(resolved_content.s, TitleFallbackLength))
                       ELSE resolved_title
        generates == note.summary = PyNone \/ note.tags = <<>>
        generated == summarize_and_tag(resolved_content, world)
        summary == IF generates THEN PyOr(note.summary, generated.value.summary)
                   ELSE note.summary
        tags == IF note.tags = <<>> THEN generated.value.tags ELSE note.tags
        stored == add_note(table, final_title.s, resolved_content.s, summary, tags,
                           world.vec)
    IN  IF ~Truthy(resolved_content) THEN Raise(table)
        ELSE IF generates /\ generated.raised THEN Raise(table)
        ELSE IF world.embedder_fails \/ world.store_write_fails THEN Raise(table)
        ELSE Return([id |-> Last(stored).id, title |-> Last(stored).title,
                     summary |-> Last(stored).summary], stored)

\* the most notes a sequence of requests stores
MaxStored == 2

\* tags an analyzer answers and tags a client sends
RawTags == << <<"A", "I", " ">>, <<"a", "i">> >>

PunctuatedTags == << <<"!", " ", "a", "b">> >>

NotePages == {NoPage, [downloaded |-> TRUE, text |-> PyStr(<<"p", "a", "g", "e", " ">>)]}

\* what the collaborators of the ingestion handler answer
NoteIngestionWorlds ==
    [embedder_fails : BOOLEAN, store_read_fails : BOOLEAN, store_write_fails : BOOLEAN,
     vec : {<<1, 0>>}, page : NotePages,
     analysis : {NoAnalysis,
                 [ok |-> TRUE, title |-> <<"T">>, summary |-> <<"s", "u", "m">>,
                  tags |-> RawTags, key_insights |-> <<>>],
                 [ok |-> TRUE, title |-> <<"T">>, summary |-> <<"s", "u", "m">>,
                  tags |-> PunctuatedTags, key_insights |-> <<>>]},
     summary : {NoSummary}]

\* what the collaborators of create_note answer
CreateNoteWorlds ==
    [embedder_fails : BOOLEAN, store_read_fails : {FALSE}, store_write_fails : BOOLEAN,
     vec : {<<1, 0>>}, page : NotePages, analysis : {NoAnalysis},
     summary : SummarizerAnswers]

NoteIngestions ==
    { [action |-> "ingest_text", input_data |-> [content |-> PyStr(Cats)]],
      [action |-> "ingest_text", input_data |-> [title |-> PyStr(<<"T">>)]],
      [action |-> "ingest_url", input_data |-> [url |-> PyStr(<<"u", "r", "l">>)]] }

NoteInputs ==
    [title : {PyNone, PyStr(<<"T">>)}, content : {PyNone, PyStr(Cats)},
     url : {PyNone, PyStr(<<"u", "r", "l">>)}, summary : {PyNone, PyStr(<<"s", "u", "m">>)},
     tags : {<<>>, RawTags}]

LastRequest(handler, raised) ==
    [drawn |-> FALSE, called |-> TRUE, handler |-> handler, raised |-> raised]

\* a request the ingestion handler serves
IngestRequest ==
    /\ Len(store) < MaxStored
    /\ \E i \in NoteIngestions, world \in NoteIngestionWorlds :
         \E out \in {process_ingestion(i.action, i.input_data, store, world)} :
            /\ store' = out.table
            /\ hnd' = LastRequest("ingestion", out.raised)
    /\ UNCHANGED <<pc, cls, val, srch, req, tgs, sim, llm>>

\* a request to /add_note
CreateNoteRequest ==
    /\ Len(store) < MaxStored
    /\ \E note \in NoteInputs, world \in CreateNoteWorlds :
         \E out \in {create_note(note, store, world)} :
            /\ store' = out.table
            /\ hnd' = LastRequest("create_note", out.raised)
    /\ UNCHANGED <<pc, cls, val, srch, req, tgs, sim, llm>>

NotesInit ==
    /\ pc = "ready"
    /\ store = <<>>
    /\ cls = NoCall
    /\ val = NoCall
    /\ srch = NoCall
    /\ hnd = NoCall
    /\ req = NoCall
    /\ tgs = NoCall
    /\ sim = NoCall
    /\ llm = NoCall

NotesNext == IngestRequest \/ CreateNoteRequest

SpecNotes == NotesInit /\ [][NotesNext]_vars

\* C14: after any sequence of requests that create notes, whatever the
\* analyzer, the embedder and the store fail at, every note of the store has an
\* embedding and a tag list that the Tag Normalizer returns unchanged.
C14_StoredNotesNormalized ==
    \A i \in 1..Len(store) :
        /\ Len(store[i].embedding) > 0
        /\ normalize_tags(StrList(store[i].tags)) = Returns(store[i].tags)


\* the norm of a vector is zero
ZeroNorm(vec) == \A i \in 1..Len(vec) : vec[i] = 0

Scored == pc \in {"done", "again"} /\ sim.called /\ ~sim.raised

\* C21: if either vector has zero norm (every component zero, or no
\* components), compute_similarity returns exactly 0.0 for every other vector,
\* of the same or a different length, and performs no division.
C21_ZeroNormIsZero ==
    Scored /\ (ZeroNorm(sim.embedding1) \/ ZeroNorm(sim.embedding2))
        => sim.score = ZeroScore /\ ~sim.divided

\* the empty vector against a vector of two coordinates: 0.0, no division
C21_Witness ==
    /\ Scored /\ sim.embedding1 = <<1, 2>> /\ sim.embedding2 = <<>>
    /\ sim.score = ZeroScore /\ ~sim.divided

\* C22: the similarity scorer the handlers call never throws: for every pair
\* of arguments, a missing (null) embedding and a malformed vector included,
\* it returns a number, and a computation that fails gives 0.0.
C22_ScorerNeverThrows ==
    pc = "scored" /\ sim.called =>
        /\ ~sim.wrapped.raised
        /\ sim.wrapped.value.den > 0
        /\ compute_similarity_of(sim.kind1, sim.embedding1,
                                 sim.kind2, sim.embedding2).raised
              => sim.wrapped.value = ZeroScore

\* compute_similarity itself, called with the same arguments, never raises
C22_ComputeSimilarityNeverThrows == pc = "done" /\ sim.called => ~sim.raised

\* the embedding of a note that has none against a vector: compute_similarity
\* raises, the wrapper answers 0.0
C22_Witness ==
    /\ pc = "scored" /\ sim.called
    /\ sim.kind1 = "null" /\ sim.kind2 = "vector" /\ sim.embedding2 = <<1, 2>>
    /\ sim.wrapped = Returns(ZeroScore)

\* a token in canonical form: lowercase, longer than one character, no
\* whitespace at either end, no run of whitespace, no punctuation other than
\* hyphen and forward slash
Canonical(token) ==
    /\ Lower(token) = token
    /\ Len(token) > 1
    /\ Strip(token) = token
    /\ \A i \in 1..(Len(token) - 1) :
          ~(token[i] \in Whitespace /\ token[i + 1] \in Whitespace)
    /\ \A i \in 1..Len(token) :
          IsWordChar(token[i]) \/ token[i] \in Whitespace \/ token[i] \in {"/", "-"}

\* C23: every token in the output of normalize_tags is in canonical form: it
\* is lowercase, longer than one character, has no leading or trailing
\* whitespace, contains no run of two or more whitespace characters, and
\* contains no punctuation other than hyphen and forward slash.
C23_TokensCanonical ==
    Normalized /\ ~tgs.out.raised =>
        \A p \in 1..Len(tgs.out.value) : Canonical(tgs.out.value[p])

\* the index of the first appearance of a note id in the semantic results
\* followed by the lexical results
DiscoveryIndex(semantic_results, text_results, id) ==
    CHOOSE i \in 1..(Len(semantic_results) + Len(text_results)) :
        /\ (semantic_results \o text_results)[i].id = id
        /\ \A j \in 1..(i - 1) : (semantic_results \o text_results)[j].id # id

\* w * s + (1 - w) * t of a note, s and t being 1 - rank / list_length in the
\* list that holds the note and 0 in a list that does not, over the common
\* denominator 100 * len(semantic_results) * len(text_results)
WeightedRankScore(weight, semantic_results, text_results, id) ==
    LET place(notes) == CHOOSE i \in 1..Len(notes) : notes[i].id = id
        s == IF \E i \in 1..Len(semantic_results) : semantic_results[i].id = id
             THEN (Len(semantic_results) - (place(semantic_results) - 1))
                  * NonZero(Len(text_results))
             ELSE 0
        t == IF \E i \in 1..Len(text_results) : text_results[i].id = id
             THEN (Len(text_results) - (place(text_results) - 1))
                  * NonZero(Len(semantic_results))
             ELSE 0
    IN  weight * s + (100 - weight) * t

HybridRanked(semantic_results, text_results, out) ==
    /\ Len(out) <= srch.top_k
    /\ \A i, j \in 1..Len(out) : out[i].id = out[j].id => i = j
    /\ \A i \in 1..Len(out) :
          \/ \E p \in 1..Len(semantic_results) : semantic_results[p] = out[i]
          \/ \E p \in 1..Len(text_results) : text_results[p] = out[i]
    /\ \A i, j \in 1..Len(out) :
          i < j => WeightedRankScore(srch.weight, semantic_results, text_results, out[i].id)
                   >= WeightedRankScore(srch.weight, semantic_results, text_results, out[j].id)

\* C24: for all semantic and lexical sub-result lists, empty ones included, and
\* every weight w in [0,1], hybrid_search returns a list of at most top_k notes
\* with no note id twice, each taken from one of the two sub-results, in order
\* of non-increasing combined score w*s + (1-w)*t, where s and t are
\* 1 - rank/list_length in the respective list and 0 for a note that list lacks.
C24_HybridRanked ==
    Searched =>
        HybridRanked(semantic_search(store, srch.query_vec, SubSearchLimit(srch.top_k)),
                     search_by_content(store, srch.query, SubSearchLimit(srch.top_k)),
                     srch.results.hybrid)

\* a lexical search without a match, weights that differ, and two notes returned
\* with distinct scores
C24_Witness ==
    /\ Searched /\ srch.weight = 50 /\ srch.top_k = 2
    /\ search_by_content(store, srch.query, SubSearchLimit(srch.top_k)) = <<>>
    /\ Len(srch.results.hybrid) = 2
    /\ Len(store) = 3

TiesInDiscoveryOrder(semantic_results, text_results, out) ==
    \A i, j \in 1..Len(out) :
        /\ i < j
        /\ WeightedRankScore(srch.weight, semantic_results, text_results, out[i].id)
           = WeightedRankScore(srch.weight, semantic_results, text_results, out[j].id)
        => DiscoveryIndex(semantic_results, text_results, out[i].id)
           < DiscoveryIndex(semantic_results, text_results, out[j].id)

\* C25: in hybrid search, notes with equal combined scores are returned in
\* their discovery order (order of first appearance, the semantic list before
\* the lexical list), so that the order of the result is a function of the two
\* sub-result lists and the weight.
C25_TiesInDiscoveryOrder ==
    Searched =>
        TiesInDiscoveryOrder(
            semantic_search(store, srch.query_vec, SubSearchLimit(srch.top_k)),
            search_by_content(store, srch.query, SubSearchLimit(srch.top_k)),
            srch.results.hybrid)

\* the input_data the classifier path prepares for the decision that was
\* returned, from the same input (the shortcut does not strip its input)
PreparedForResult ==
    LET user_input == IF IsBlank(cls.input) THEN cls.input ELSE Strip(cls.input)
        ex == extract_content_from_input(user_input, cls.page)
    IN  _prepare_input_data(cls.result.agent_type, cls.result.action,
                            user_input, ex.title, ex.content, ex.input_type)

\* C26: for every decision classify_input returns, the keys of input_data are
\* determined by (agent_type, action) alone: the empty-input shortcut and the
\* fallback rules give the payload the classifier path prepares for the same
\* (agent_type, action) and the same input (same keys, same values).
C26_PayloadShapeByDecision ==
    Returned /\ (IsBlank(cls.input) \/ Count(cls.calls, "fallback") = 1) =>
        cls.result.input_data = PreparedForResult


\* C30: every decision classify_input produces through the empty-input
\* shortcut or through the fallback rules passes validate_routing: its
\* agent_type is one of the three known values, it carries action and
\* input_data, and its confidence is one of 1.0, 0.95, 0.9, 0.85, 0.8 or 0.5.
C30_ShortcutAndFallbackValid ==
    Returned /\ (IsBlank(cls.input) \/ Count(cls.calls, "fallback") = 1) =>
        /\ validate_routing(cls.result)
        /\ cls.result.agent_type \in {"ingestion", "query", "summarization"}
        /\ {"action", "input_data"} \subseteq DOMAIN cls.result
        /\ cls.result.confidence \in
              {Conf("float", 100), Conf("float", 95), Conf("float", 90),
               Conf("float", 85), Conf("float", 80), Conf("float", 50)}

\* a text without keyword after a failed classifier call: ingest_text, 0.85
C30_Witness ==
    /\ Returned /\ Count(cls.calls, "fallback") = 1
    /\ cls.input = <<"m", "e", "m", "o">>
    /\ cls.result.action = "ingest_text"
    /\ cls.result.confidence = Conf("float", 85)
    /\ validate_routing(cls.result)

(***************************************************************************)
(* The summarizer (app/llm.py).                                            *)
(***************************************************************************)
PRIMARY_MODEL == "claude-3-5-haiku-20241022"

FALLBACK_MODEL == "claude-3-haiku-20240307"

\* s.split(): the words between runs of whitespace
RECURSIVE WordsOf(_)
WordsOf(s) ==
    IF LStrip(s) = <<>> THEN <<>>
    ELSE LET t == LStrip(s)
             n == IF \E i \in 1..Len(t) : t[i] \in Whitespace
                  THEN CHOOSE i \in 1..Len(t) :
                          t[i] \in Whitespace /\ \A j \in 1..(i - 1) : t[j] \notin Whitespace
                  ELSE Len(t) + 1
         IN  <<SubSeq(t, 1, n - 1)>> \o WordsOf(SubSeq(t, n, Len(t)))

\* re.split(r"(?<=[.!?])\s+", s): s cut at each run of whitespace that follows
\* a full stop, an exclamation mark or a question mark
RECURSIVE SplitSentences(_, _)
SplitSentences(s, current) ==
    IF s = <<>> THEN <<current>>
    ELSE IF /\ Head(s) \in Whitespace
            /\ current # <<>>
            /\ Last(current) \in {".", "!", "?"}
    THEN <<current>> \o SplitSentences(LStrip(s), <<>>)
    ELSE SplitSentences(Tail(s), Append(current, Head(s)))

\* re.sub(r"[^a-zA-Z0-9\s]", " ", content.lower())
LettersDigitsAndSpace(content) ==
    [i \in 1..Len(content) |->
        IF LowerChar(content[i]) \in LowerLetters \cup Digits \cup Whitespace
        THEN LowerChar(content[i]) ELSE " "]

\* the order of the characters of a token
CharacterOrder ==
    <<"0", "1", "2", "3", "4", "5", "6", "7", "8", "9",
      "a", "b", "c", "d", "e", "f", "g", "h", "i", "j", "k", "l", "m",
      "n", "o", "p", "q", "r", "s", "t", "u", "v", "w", "x", "y", "z">>

CharacterCode(c) == CHOOSE i \in 1..Len(CharacterOrder) : CharacterOrder[i] = c

\* a < b for two strings of digits and lowercase letters
RECURSIVE StrLess(_, _)
StrLess(a, b) ==
    IF b = <<>> THEN FALSE
    ELSE IF a = <<>> THEN TRUE
    ELSE IF Head(a) = Head(b) THEN StrLess(Tail(a), Tail(b))
    ELSE CharacterCode(Head(a)) < CharacterCode(Head(b))

\* sorted(freq.items(), key=lambda x: (-x[1], x[0])): the distinct tokens, the
\* most frequent first, equally frequent ones in the order of the strings
RECURSIVE SortByFrequency(_, _)
SortByFrequency(distinct, tokens) ==
    IF distinct = {} THEN <<>>
    ELSE LET first == CHOOSE t \in distinct : \A u \in distinct \ {t} :
                          \/ Count(tokens, t) > Count(tokens, u)
                          \/ Count(tokens, t) = Count(tokens, u) /\ StrLess(t, u)
         IN  <<first>> \o SortByFrequency(distinct \ {first}, tokens)

StopWords ==
    {<<"a", "b", "o", "u", "t">>, <<"a", "f", "t", "e", "r">>, <<"a", "n", "d">>,
      <<"a", "n", "y">>, <<"a", "r", "e">>, <<"b", "e", "f", "o", "r", "e">>,
      <<"b", "e", "t", "w", "e", "e", "n">>, <<"b", "u", "t">>, <<"c", "a", "n">>,
      <<"c", "o", "u", "l", "d">>, <<"e", "a", "c", "h">>, <<"f", "o", "r">>,
      <<"f", "r", "o", "m">>, <<"h", "a", "d">>, <<"h", "a", "s">>,
      <<"h", "a", "v", "e">>, <<"h", "e", "r">>, <<"h", "i", "s">>,
      <<"h", "o", "w">>, <<"i", "n", "t", "o">>, <<"i", "t", "s">>,
      <<"m", "o", "r", "e">>, <<"m", "o", "s", "t">>, <<"n", "o", "t">>,
      <<"o", "n", "t", "o">>, <<"o", "t", "h", "e", "r">>, <<"o", "u", "t">>,
      <<"o", "v", "e", "r">>, <<"s", "h", "o", "u", "l", "d">>,
      <<"s", "o", "m", "e">>, <<"t", "h", "a", "n">>, <<"t", "h", "a", "t">>,
      <<"t", "h", "e">>, <<"t", "h", "e", "i", "r">>, <<"t", "h", "e", "m">>,
      <<"t", "h", "e", "y">>, <<"t", "h", "i", "s">>, <<"u", "n", "d", "e", "r">>,
      <<"w", "a", "s">>, <<"w", "e", "r", "e">>, <<"w", "h", "a", "t">>,
      <<"w", "h", "e", "n">>, <<"w", "h", "e", "r", "e">>, <<"w", "h", "o">>,
      <<"w", "h", "y">>, <<"w", "i", "l", "l">>, <<"w", "i", "t", "h">>,
      <<"w", "o", "u", "l", "d">>, <<"y", "o", "u">>, <<"y", "o", "u", "r">> }

\* the contents summarize_and_tag is called with
LlmContents ==
    {<<>>, <<" ", "\n">>,
      <<"C", "a", "t", "s", " ", "n", "a", "p", ".", " ", "D", "o", "g", "s", " ", "d", "i", "g", "!", " ", " ", "W", "h", "o", "?", " ", "M", "e", ".">>,
      <<"D", "o", "g", ",", " ", "c", "a", "t", ";", " ", "D", "O", "G", " ", "t", "h", "e", "i", "r", "_", "c", "a", "t">>,
      <<"a", "a", "a", " ", "b", "b", "b", " ", "c", "c", "c", " ", "d", "d", "d", " ", "e", "e", "e", " ", "f", "f", "f", " ", "g", "g", "g", " ", "h", "h", "h", " ", "i", "i", "i", " ", "b", "2", "b">> }

\* the text a model call may answer with
ModelTexts ==
    {<<"{", "\"", "s", "u", "m", "m", "a", "r", "y", "\"", ":", " ", "\"", "S", ".", "\"", ",", " ", "\"", "t", "a", "g", "s", "\"", ":", " ", "[", "\"", "A", "I", " ", "\"", ",", " ", "7", ",", " ", "\"", " ", "\"", "]", "}">>,
      <<"o", "k", " ", "{", "\"", "s", "u", "m", "m", "a", "r", "y", "\"", ":", " ", "\"", "S", ".", "\"", "}", " ", "d", "o", "n", "e">>,
      <<"[", "\"", "a", "b", "\"", "]">>, <<>>,
      <<"{", "\"", "t", "a", "g", "s", "\"", ":", " ", "\"", "a", "b", "\"", ",", " ", "\"", "s", "u", "m", "m", "a", "r", "y", "\"", ":", " ", "n", "u", "l", "l", "}">>,
      <<"{", "o", "o", "p", "s", "}">>,
      <<"{", "\"", "s", "u", "m", "m", "a", "r", "y", "\"", ":", " ", "\"", "\"", ",", " ", "\"", "t", "a", "g", "s", "\"", ":", " ", "[", "]", "}">>,
      <<"{", "\"", "s", "u", "m", "m", "a", "r", "y", "\"", ":", " ", "5", ",", " ", "\"", "t", "a", "g", "s", "\"", ":", " ", "[", "\"", "x", "\"", "]", ",", " ", "\"", "s", "u", "m", "m", "a", "r", "y", "\"", ":", " ", "\"", "T", "\"", "}">> }

\* the summary of _local_fallback: the first three sentences, 180 words at most
LocalSummary(content) ==
    LET summary == JoinWith(Take(SplitSentences(Strip(content), <<>>), 3), <<" ">>)
    IN  IF Len(WordsOf(summary)) > 180
        THEN JoinWith(Take(WordsOf(summary), 180), <<" ">>)
        ELSE summary

\* the tags of _local_fallback: the eight most frequent tokens of more than two
\* characters that are no stop words
LocalTags(content) ==
    LET tokens == SelectSeq(WordsOf(LettersDigitsAndSpace(content)),
                            LAMBDA t : Len(t) > 2)
        filtered == SelectSeq(tokens, LAMBDA t : t \notin StopWords)
    IN  Take(SortByFrequency({filtered[i] : i \in 1..Len(filtered)}, filtered), 8)

\* _local_fallback(content) -> (summary, tags)
_local_fallback(content) ==
    [summary |-> PyStr(IF LocalSummary(content) # <<>> THEN LocalSummary(content)
                       ELSE Take(content, 200)),
     tags |-> LocalTags(content)]

\* what client.messages.create gives: an exception, or a message whose text
\* blocks join to a text
ModelAnswers == [fails : {TRUE}, text : {<<>>}] \cup [fails : {FALSE}, text : ModelTexts]

\* a _call_model whose except clause was forgotten
_call_model_unguarded(answer) ==
    IF answer.fails THEN Raises
    ELSE Returns([ok |-> TRUE, combined |-> answer.text])

\* _call_model(model_name) -> (ok, combined)
_call_model(answer) ==
    IF answer.fails THEN Returns([ok |-> FALSE, combined |-> <<>>])
    ELSE Returns([ok |-> TRUE, combined |-> answer.text])

\* re.search(r"\{[\s\S]*\}", combined): from the first { to the last }
HasBraceSpan(combined) ==
    \E i, j \in 1..Len(combined) : i < j /\ combined[i] = "{" /\ combined[j] = "}"

BraceSpan(combined) ==
    SubSeq(combined,
           CHOOSE i \in 1..Len(combined) :
               combined[i] = "{" /\ \A k \in 1..(i - 1) : combined[k] # "{",
           CHOOSE j \in 1..Len(combined) :
               combined[j] = "}" /\ \A k \in (j + 1)..Len(combined) : combined[k] # "}")

\* data after the two attempts to parse the output (lines 139-149): the value
\* of the whole text, else the value of its brace span, else None
ParseModelOutput(combined) ==
    IF ~json_loads(combined).raised THEN json_loads(combined).value
    ELSE IF HasBraceSpan(combined) /\ ~json_loads(BraceSpan(combined)).raised
    THEN json_loads(BraceSpan(combined)).value
    ELSE PyNone

\* data.get(key): the value of the last member with that key, else None
DictGet(data, key) ==
    IF \E i \in 1..Len(data.items) : data.items[i].items[1] = PyStr(key)
    THEN data.items[CHOOSE i \in 1..Len(data.items) :
                       /\ data.items[i].items[1] = PyStr(key)
                       /\ \A j \in (i + 1)..Len(data.items) :
                             data.items[j].items[1] # PyStr(key)].items[2]
    ELSE PyNone

\* the decimal digits of a natural number
RECURSIVE DecimalDigits(_)
DecimalDigits(n) ==
    IF n < 10 THEN <<CharacterOrder[n + 1]>>
    ELSE Append(DecimalDigits(n \div 10), CharacterOrder[(n % 10) + 1])

\* str(t) of a string, an integer, None, True or False; the repr of a list or
\* a dict is not modelled and no model text holds one among its tags
StrOf(v) ==
    CASE v.t = "str" -> v.s
      [] v.t = "int" -> IF v.n < 0 THEN <<"-">> \o DecimalDigits(0 - v.n)
                        ELSE DecimalDigits(v.n)
      [] v.t = "none" -> <<"N", "o", "n", "e">>
      [] v.t = "bool" -> IF v.n = 1 THEN <<"T", "r", "u", "e">>
                         ELSE <<"F", "a", "l", "s", "e">>

\* [str(t).strip().lower() for t in tags_raw if str(t).strip()] for a list,
\* else []
ModelTags(tags_raw) ==
    IF tags_raw.t # "list" THEN <<>>
    ELSE LET kept == SelectSeq(tags_raw.items, LAMBDA t : Strip(StrOf(t)) # <<>>)
         IN  [i \in 1..Len(kept) |-> Lower(Strip(StrOf(kept[i])))]

\* lines 150-164: the result made of the model's output, the local fallback
\* supplying what the output lacks
FromModelOutput(content, data) ==
    IF data.t # "dict" THEN _local_fallback(content)
    ELSE [summary |-> PyOr(DictGet(data, <<"s", "u", "m", "m", "a", "r", "y">>),
                           _local_fallback(content).summary),
          tags |-> IF ModelTags(PyOr(DictGet(data, <<"t", "a", "g", "s">>),
                                     PyList(<<>>))) # <<>>
                   THEN ModelTags(PyOr(DictGet(data, <<"t", "a", "g", "s">>),
                                       PyList(<<>>)))
                   ELSE _local_fallback(content).tags]

\* the rest of summarize_and_tag after the primary model call
AfterPrimary(content, primary, fallback) ==
    IF primary.raised THEN [out |-> Raises, calls |-> <<PRIMARY_MODEL>>]
    ELSE IF primary.value.ok
    THEN [out |-> Returns(FromModelOutput(content,
                              ParseModelOutput(primary.value.combined))),
          calls |-> <<PRIMARY_MODEL>>]
    ELSE IF fallback.raised
    THEN [out |-> Raises, calls |-> <<PRIMARY_MODEL, FALLBACK_MODEL>>]
    ELSE IF fallback.value.ok
    THEN [out |-> Returns(FromModelOutput(content,
                              ParseModelOutput(fallback.value.combined))),
          calls |-> <<PRIMARY_MODEL, FALLBACK_MODEL>>]
    ELSE [out |-> Returns(_local_fallback(content)),
          calls |-> <<PRIMARY_MODEL, FALLBACK_MODEL>>]

\* summarize_and_tag(content) of app/llm.py: what it returns or raises, and the
\* model calls it made in order; client tells whether _get_client() gives one
llm_summarize_and_tag(content, client, primary, fallback) ==
    IF ~client THEN [out |-> Returns(_local_fallback(content)), calls |-> <<>>]
    ELSE AfterPrimary(content, _call_model(primary), _call_model(fallback))

LlmCalls ==
    [drawn : {TRUE}, called : {FALSE}, content : LlmContents, client : BOOLEAN,
     primary : ModelAnswers, fallback : ModelAnswers,
     calls : {<<>>}, out : {Returns(PyNone)}]

\* summarize_and_tag(content)
SummarizeAndTag ==
    /\ pc = "ready"
    /\ llm.drawn
    /\ \E result \in {llm_summarize_and_tag(llm.content, llm.client,
                                             llm.primary, llm.fallback)} :
         llm' = [llm EXCEPT !.called = TRUE, !.calls = result.calls,
                            !.out = result.out]
    /\ pc' = "done"
    /\ UNCHANGED <<cls, val, store, srch, hnd, req, tgs, sim>>

LlmInit ==
    /\ pc = "ready"
    /\ llm \in LlmCalls
    /\ store = <<>>
    /\ cls = NoCall
    /\ val = NoCall
    /\ srch = NoCall
    /\ hnd = NoCall
    /\ req = NoCall
    /\ tgs = NoCall
    /\ sim = NoCall

LlmNext == SummarizeAndTag

SpecLlm == LlmInit /\ [][LlmNext]_vars

(***************************************************************************)
(* Claims on the summarizer.                                               *)
(***************************************************************************)
\* the text of the model call whose answer summarize_and_tag parses
AnsweredText == IF llm.primary.fails THEN llm.fallback.text ELSE llm.primary.text

\* the text, or else the part of it from its first { to its last }, is a JSON
\* object
ParsesAsObject(text) ==
    \/ ~json_loads(text).raised /\ json_loads(text).value.t = "dict"
    \/ /\ json_loads(text).raised
       /\ HasBraceSpan(text)
       /\ ~json_loads(BraceSpan(text)).raised
       /\ json_loads(BraceSpan(text)).value.t = "dict"

\* C27: for every string content, summarize_and_tag makes at most two model
\* calls, calls the fallback model only after the primary model call has
\* failed, and returns the result of the local extractive fallback whenever no
\* client is configured, both model calls fail, or the model output cannot be
\* parsed as a JSON object; it never raises.
C27_SummarizeAndTag ==
    pc = "done" /\ llm.called =>
        /\ ~llm.out.raised
        /\ Len(llm.calls) <= 2
        /\ \A i \in 1..Len(llm.calls) :
              llm.calls[i] = FALLBACK_MODEL =>
                  i = 2 /\ llm.calls[1] = PRIMARY_MODEL /\ llm.primary.fails
        /\ \/ ~llm.client
           \/ llm.primary.fails /\ llm.fallback.fails
           \/ ~ParsesAsObject(AnsweredText)
           => llm.out.value = _local_fallback(llm.content)

\* the primary model call fails, the fallback model answers a JSON array: two
\* calls, and the local fallback's summary and tags
C27_Witness ==
    /\ pc = "done" /\ llm.called /\ llm.client
    /\ llm.primary.fails
    /\ llm.fallback.text = <<"[", "\"", "a", "b", "\"", "]">>
    /\ llm.calls = <<PRIMARY_MODEL, FALLBACK_MODEL>>
    /\ llm.content = <<"D", "o", "g", ",", " ", "c", "a", "t", ";", " ", "D", "O", "G", " ", "t", "h", "e", "i", "r", "_", "c", "a", "t">>
    /\ llm.out.value.tags = << <<"c", "a", "t">>, <<"d", "o", "g">> >>

\* C28: the ingestion pipeline returns the storage-failure error only if
\* persisting the note failed: whenever an ingestion request returns
\* success:false, the store holds exactly the notes it held before the request
\* (a failure of the embedder, of the similar-notes lookup or of the assembly
\* of the result leaves no new note behind).
C28_FailedIngestionStoresNothing ==
    [][(/\ hnd.handler = "ingestion"
        /\ ~hnd.called /\ hnd'.called
        /\ ~hnd'.out.raised
        /\ ~hnd'.out.value.success) => store' = store]_vars

(***************************************************************************)
(* validate_input of the three handlers.                                   *)
(***************************************************************************)
\* key in input_data and input_data[key]; `in` raises on None
PresentAndTruthy(input_data, key) ==
    IF ~IsDict(input_data) THEN Raises
    ELSE IF key \in DOMAIN input_data THEN Returns(input_data[key])
    ELSE Returns(PyBool(FALSE))

\* key in input_data and bool(input_data.get(key))
PresentAndTrue(input_data, key) ==
    IF ~IsDict(input_data) THEN Raises
    ELSE Returns(PyBool(key \in DOMAIN input_data /\ Truthy(input_data[key])))

\* QueryAgent.validate_input(action, input_data)
query_validate_input(action, input_data) ==
    IF action = "search" THEN PresentAndTruthy(input_data, "query")
    ELSE IF action = "find_similar" THEN PresentAndTruthy(input_data, "note_id")
    ELSE IF action \in {"get_recent", "empty_input"} THEN Returns(PyBool(TRUE))
    ELSE Returns(PyBool(FALSE))

\* StrandsIngestionAgent.validate_input(action, input_data)
ingestion_validate_input(action, input_data) ==
    IF action = "ingest_url" THEN PresentAndTrue(input_data, "url")
    ELSE IF action = "ingest_text" THEN PresentAndTrue(input_data, "content")
    ELSE Returns(PyBool(FALSE))

\* SummarizationAgent.validate_input(action, input_data)
summarization_validate_input(action, input_data) ==
    IF action = "summarize_existing" THEN PresentAndTruthy(input_data, "content")
    ELSE IF action = "generate_summary"
    THEN IF PresentAndTruthy(input_data, "content").raised THEN Raises
         ELSE IF Truthy(PresentAndTruthy(input_data, "content").value)
         THEN PresentAndTruthy(input_data, "content")
         ELSE PresentAndTruthy(input_data, "note_id")
    ELSE Returns(PyBool(FALSE))

\* the validate_input of a handler
validate_input(handler, action, input_data) ==
    CASE handler = "query" -> query_validate_input(action, input_data)
      [] handler = "ingestion" -> ingestion_validate_input(action, input_data)
      [] handler = "summarization" -> summarization_validate_input(action, input_data)

\* the errors by which a handler tells that a required field is missing
MissingFieldErrors ==
    {"Search query is required", "Note ID is required for finding similar notes",
     "URL is required for URL ingestion", "Content is required for text ingestion",
     "Content is required for summarization", "Either content or note_id is required"}

\* validate_input gave a truthy value for the arguments of the call
ValidatedInput ==
    /\ ~validate_input(hnd.handler, hnd.action, hnd.input_data).raised
    /\ Truthy(validate_input(hnd.handler, hnd.action, hnd.input_data).value)

\* C29: for every handler, action and input_data, if validate_input(action,
\* input_data) is truthy then the handler's process call with the same
\* arguments does not fail with a missing-required-field validation error
\* (such as 'Search query is required' or 'Content is required for
\* summarization').
C29_ValidatedInputHasRequiredFields ==
    Handled /\ ValidatedInput =>
        ~(/\ ~hnd.out.raised
          /\ ~hnd.out.value.success
          /\ hnd.out.value.error \in MissingFieldErrors)

====
